---- MODULE Spec2Model ----
(***************************************************************************)
(* BROtronic: the binary analysis engine (src/services/romParser.ts) and   *)
(* the export handlers of the application shell (src/App.tsx).             *)
(*                                                                         *)
(* Numbers.  A JavaScript number is modelled as a fraction [n, d] in       *)
(* lowest terms with d > 0; d = 0 encodes the non-finite values            *)
(* (n = 1: Infinity, n = -1: -Infinity, n = 0: NaN).  Raw values, offsets  *)
(* and byte values are plain integers.                                     *)
(*                                                                         *)
(* Buffers.  A Uint8Array is modelled as [length, fill, at]: `at` gives    *)
(* the bytes at the explicitly listed offsets, every other offset in       *)
(* 0..length-1 holds `fill`.  This keeps 16 KiB .. 64 KiB images small in  *)
(* the state while every read, write and sum is computed exactly.          *)
(***************************************************************************)
EXTENDS Integers, Sequences, FiniteSets, TLC

VARIABLES
    tempRom,        \* ROMLoader.tsx:22   ParseResult held by the loader dialog
    rom,            \* App.tsx:501        the loaded ROMFile or NULL
    selectedMapId,  \* App.tsx:503
    editingData,    \* App.tsx:505        grid shown in the tuner or NULL
    exported,       \* the blob downloaded by the last step, NULL if none
    arg,            \* input of a pure-function run
    ret             \* result of the last function applied to arg

vars == <<tempRom, rom, selectedMapId, editingData, exported, arg, ret>>

NULL == [null |-> TRUE]

\* the value undefined of an out-of-range element read; no byte is negative
Undefined == 0 - 1

\* a null editingData; a grid extracted from a map has at least one row
NoGrid == <<>>

\* a null selectedMapId
NoMapId == "null"

(***************************************************************************)
(* Fractions.                                                              *)
(***************************************************************************)
Abs(i) == IF i < 0 THEN -i ELSE i

RECURSIVE GCD(_, _)
GCD(a, b) == IF b = 0 THEN a ELSE GCD(b, a % b)

Rat(n, d) ==
    IF d = 0 THEN [n |-> IF n > 0 THEN 1 ELSE IF n < 0 THEN -1 ELSE 0, d |-> 0]
    ELSE LET g == GCD(Abs(n), Abs(d))
             s == IF d < 0 THEN -1 ELSE 1
         IN [n |-> s * (n \div g), d |-> s * (d \div g)]

R(i) == [n |-> i, d |-> 1]

NaN == [n |-> 0, d |-> 0]

Infinity == [n |-> 1, d |-> 0]

IsNaN(v) == v.d = 0 /\ v.n = 0

IsFinite(v) == v.d # 0

RNeg(a) == [n |-> -a.n, d |-> a.d]

RAdd(a, b) ==
    IF IsFinite(a) /\ IsFinite(b) THEN Rat(a.n * b.d + b.n * a.d, a.d * b.d)
    ELSE IF IsNaN(a) \/ IsNaN(b) THEN NaN
    ELSE IF ~IsFinite(a) /\ ~IsFinite(b) THEN (IF a.n = b.n THEN a ELSE NaN)
    ELSE IF IsFinite(a) THEN b ELSE a

RSub(a, b) == RAdd(a, RNeg(b))

RMul(a, b) ==
    IF IsFinite(a) /\ IsFinite(b) THEN Rat(a.n * b.n, a.d * b.d)
    ELSE IF IsNaN(a) \/ IsNaN(b) \/ a.n = 0 \/ b.n = 0 THEN NaN
    ELSE Rat((IF a.n > 0 THEN 1 ELSE -1) * (IF b.n > 0 THEN 1 ELSE -1), 0)

\* a / b with IEEE-754 results for a zero or non-finite divisor
RDiv(a, b) ==
    IF IsNaN(a) \/ IsNaN(b) THEN NaN
    ELSE IF ~IsFinite(b) THEN (IF IsFinite(a) THEN R(0) ELSE NaN)
    ELSE IF b.n = 0 THEN Rat(a.n, 0)
    ELSE IF ~IsFinite(a) THEN Rat(a.n * b.n, 0)
    ELSE Rat(a.n * b.d, a.d * b.n)

RAbs(a) == [n |-> Abs(a.n), d |-> a.d]

\* a < b ; false whenever either side is NaN
RLess(a, b) ==
    IF IsNaN(a) \/ IsNaN(b) THEN FALSE
    ELSE IF ~IsFinite(a) THEN a.n < 0 /\ ~(~IsFinite(b) /\ b.n < 0)
    ELSE IF ~IsFinite(b) THEN b.n > 0
    ELSE a.n * b.d < b.n * a.d

\* Math.round on a finite number: the nearest integer, halves towards +Infinity
MathRound(a) == (2 * a.n + a.d) \div (2 * a.d)

\* Number(v.toFixed(3)): three decimals, halves away from zero; a non-finite
\* value prints as itself
ToFixed3(a) ==
    IF ~IsFinite(a) THEN a
    ELSE LET m == (2 * Abs(a.n) * 1000 + a.d) \div (2 * a.d)
         IN Rat((IF a.n < 0 THEN -1 ELSE 1) * m, 1000)

(***************************************************************************)
(* Uint8Array.                                                             *)
(***************************************************************************)
Byte == 0..255

Buf(len, fill, at) == [length |-> len, fill |-> fill, at |-> at]

\* data[i]: undefined outside 0..length-1
Read(data, i) ==
    IF i < 0 \/ i >= data.length THEN Undefined
    ELSE IF i \in DOMAIN data.at THEN data.at[i] ELSE data.fill

\* ToInt32 of an element read, as the operands of << | & and + see it in range
ToInt(v) == IF v = Undefined THEN 0 ELSE v

\* data[i] = v on a typed array: ignored out of range, stored modulo 256
Write(data, i, v) ==
    IF i < 0 \/ i >= data.length THEN data
    ELSE LET b == v % 256
             keep == (DOMAIN data.at) \ {i}
         IN IF b = data.fill
            THEN [data EXCEPT !.at = [j \in keep |-> data.at[j]]]
            ELSE [data EXCEPT !.at = [j \in keep \cup {i} |->
                                         IF j = i THEN b ELSE data.at[j]]]

SetMin(S) == CHOOSE x \in S : \A y \in S : x <= y

(***************************************************************************)
(* ChecksumUnit.                                                           *)
(***************************************************************************)
MinRomSize == 16384

\* the loop `sum = (sum + data[i]) & 0xFFFF` from index i up to limit; a run of
\* unlisted offsets (all holding fill) is added in one step
RECURSIVE SumLoop(_, _, _, _)
SumLoop(data, i, limit, sum) ==
    IF i >= limit THEN sum
    ELSE IF i \in DOMAIN data.at
         THEN SumLoop(data, i + 1, limit, (sum + data.at[i]) % 65536)
         ELSE LET later == {j \in DOMAIN data.at : j > i /\ j < limit}
                  nxt == IF later = {} THEN limit ELSE SetMin(later)
              IN SumLoop(data, nxt, limit, (sum + data.fill * (nxt - i)) % 65536)

calculateSummation16(data) == SumLoop(data, 0, data.length, 0)

\* variant: the trailer is summed as well
calculateCorrectChecksum_wholeBuffer(data) == SumLoop(data, 0, data.length, 0)

calculateCorrectChecksum(data) == SumLoop(data, 0, data.length - 2, 0)

\* variant: the stored value is read little-endian
verifyChecksum_littleEndian(data) ==
    IF data.length < MinRomSize THEN FALSE
    ELSE LET calculated == calculateCorrectChecksum(data)
             lastByte == data.length - 1
             stored == ToInt(Read(data, lastByte - 1))
                         + ToInt(Read(data, lastByte)) * 256
         IN calculated = stored

verifyChecksum(data) ==
    IF data.length < MinRomSize THEN FALSE
    ELSE LET calculated == calculateCorrectChecksum(data)
             lastByte == data.length - 1
             stored == ToInt(Read(data, lastByte - 1)) * 256
                         + ToInt(Read(data, lastByte))
         IN calculated = stored

(***************************************************************************)
(* FormulaEngine.  Formula texts are strings; the JavaScript string        *)
(* built-ins and the evaluation of the substituted expression are given    *)
(* for the texts of Formulas.  "" stands for an absent formula (undefined  *)
(* and '' are both falsy in `!formula`).                                   *)
(***************************************************************************)
NoFormula == ""

Formulas ==
    { NoFormula, "X", "x", " X ", "X/4", "x/4", "X/256", "X*0.05", "X*40",
      "X/2", "X*-0.75 + 72", "X+", "Y", "'a'", "X/0", "2-X" }

\* formula.trim().toUpperCase()
TrimUpper(formula) ==
    CASE formula = " X " -> "X"
      [] formula = "x"   -> "X"
      [] formula = "x/4" -> "X/4"
      [] formula = "'a'" -> "'A'"
      [] OTHER -> formula

\* new Function(`"use strict"; return (${f with X replaced by x})`)():
\* the completion of the call
Returns(v) == [throws |-> FALSE, isNumber |-> TRUE, val |-> v]

Throws == [throws |-> TRUE, isNumber |-> FALSE, val |-> NaN]

JsEval(f, x) ==
    CASE f = "X"            -> Returns(R(x))
      [] f = "X/4"          -> Returns(RDiv(R(x), R(4)))
      [] f = "X/256"        -> Returns(RDiv(R(x), R(256)))
      [] f = "X/2"          -> Returns(RDiv(R(x), R(2)))
      [] f = "X/0"          -> Returns(RDiv(R(x), R(0)))
      [] f = "X*0.05"       -> Returns(RMul(R(x), Rat(1, 20)))
      [] f = "X*40"         -> Returns(RMul(R(x), R(40)))
      [] f = "X*-0.75 + 72" -> Returns(RAdd(RMul(R(x), Rat(-3, 4)), R(72)))
         \* "2--1" is a SyntaxError: the substituted text of a negative x
      [] f = "2-X"          -> IF x < 0 THEN Throws ELSE Returns(R(2 - x))
         \* a string literal evaluates to a string
      [] f = "'A'"          -> [throws |-> FALSE, isNumber |-> FALSE, val |-> NaN]
         \* "X+" SyntaxError, "Y" ReferenceError, "" SyntaxError
      [] OTHER              -> Throws

\* variant: a NaN result is passed on as a number
evaluateFormula_keepsNaN(formula, x) ==
    IF formula = NoFormula THEN R(x)
    ELSE LET f == TrimUpper(formula)
         IN IF f = "X" THEN R(x)
            ELSE LET result == JsEval(f, x)
                 IN IF result.throws THEN R(x)
                    ELSE IF result.isNumber THEN result.val ELSE R(x)

evaluateFormula(formula, x) ==
    IF formula = NoFormula THEN R(x)
    ELSE LET f == TrimUpper(formula)
         IN IF f = "X" THEN R(x)
            ELSE LET result == JsEval(f, x)
                 IN IF result.throws THEN R(x)
                    ELSE IF result.isNumber /\ ~IsNaN(result.val)
                         THEN result.val ELSE R(x)

\* f.includes(ch)
Includes(f, ch) ==
    CASE ch = "*" -> f \in {"X*0.05", "X*40", "X*-0.75 + 72"}
      [] ch = "/" -> f \in {"X/4", "X/256", "X/2", "X/0"}
      [] OTHER -> FALSE

\* parseFloat(f.split(ch)[1]) for a text f that includes ch
ParseFloatAfter(f, ch) ==
    CASE f = "X*0.05"       -> Rat(1, 20)
      [] f = "X*40"         -> R(40)
      [] f = "X*-0.75 + 72" -> Rat(-3, 4)
      [] f = "X/4"          -> R(4)
      [] f = "X/256"        -> R(256)
      [] f = "X/2"          -> R(2)
      [] f = "X/0"          -> R(0)
      [] OTHER              -> NaN

\* v || 1
OrOne(v) == IF IsNaN(v) \/ v.n = 0 THEN R(1) ELSE v

\* variant: an equal difference replaces the minimum found so far
SearchStep_lastMinimum(formula, target, i, acc) ==
    LET diff == RAbs(RSub(evaluateFormula(formula, i), target))
    IN IF ~RLess(acc.minDiff, diff) THEN [bestRaw |-> i, minDiff |-> diff] ELSE acc

\* one iteration of the scan of reverseFormula on acc = [bestRaw, minDiff]
SearchStep(formula, target, i, acc) ==
    LET diff == RAbs(RSub(evaluateFormula(formula, i), target))
    IN IF RLess(diff, acc.minDiff) THEN [bestRaw |-> i, minDiff |-> diff] ELSE acc

\* the iterations lo..hi-1 of `for (i = 0; i < 256; i++)` in ascending order.
\* The range is split in halves and the first half is evaluated before the
\* second starts (bestRaw of the first half is always below mid), which keeps
\* the evaluation shallow.
RECURSIVE SearchLoop(_, _, _, _, _)
SearchLoop(formula, target, lo, hi, acc) ==
    IF lo >= hi THEN acc
    ELSE IF hi = lo + 1 THEN SearchStep(formula, target, lo, acc)
    ELSE LET mid == (lo + hi) \div 2
             first == SearchLoop(formula, target, lo, mid, acc)
         IN IF first.bestRaw < mid
            THEN SearchLoop(formula, target, mid, hi, first)
            ELSE first

\* variant: the 16-bit inverse of X*k multiplies by k
reverseFormula_starMultiplies(formula, target, dataSize) ==
    IF formula = NoFormula \/ formula = "X" \/ formula = "x" THEN MathRound(target)
    ELSE LET f == TrimUpper(formula)
         IN IF f = "X/4" THEN MathRound(RMul(target, R(4)))
            ELSE IF f = "X/256" THEN MathRound(RMul(target, R(256)))
            ELSE IF f = "X*0.05" THEN MathRound(RDiv(target, Rat(1, 20)))
            ELSE IF dataSize = 8
                 THEN SearchLoop(formula, target, 0, 256,
                                 [bestRaw |-> 0, minDiff |-> Infinity]).bestRaw
            ELSE IF Includes(f, "*")
                 THEN MathRound(RMul(target, OrOne(ParseFloatAfter(f, "*"))))
            ELSE IF Includes(f, "/")
                 THEN MathRound(RMul(target, OrOne(ParseFloatAfter(f, "/"))))
            ELSE MathRound(target)

\* target is a finite number; the result is an integer
reverseFormula(formula, target, dataSize) ==
    IF formula = NoFormula \/ formula = "X" \/ formula = "x" THEN MathRound(target)
    ELSE LET f == TrimUpper(formula)
         IN IF f = "X/4" THEN MathRound(RMul(target, R(4)))
            ELSE IF f = "X/256" THEN MathRound(RMul(target, R(256)))
            ELSE IF f = "X*0.05" THEN MathRound(RDiv(target, Rat(1, 20)))
            ELSE IF dataSize = 8
                 THEN SearchLoop(formula, target, 0, 256,
                                 [bestRaw |-> 0, minDiff |-> Infinity]).bestRaw
            ELSE IF Includes(f, "*")
                 THEN MathRound(RDiv(target, OrOne(ParseFloatAfter(f, "*"))))
            ELSE IF Includes(f, "/")
                 THEN MathRound(RMul(target, OrOne(ParseFloatAfter(f, "/"))))
            ELSE MathRound(target)

(***************************************************************************)
(* Map extraction (read path).  A map is [id, offset, dataSize, endian,    *)
(* rows, cols, formula]; endian "none" is an absent endian field.          *)
(***************************************************************************)
\* variant: an absent endian field reads as little-endian
ReadRaw_defaultLittleEndian(data, currentOffset, dataSize, endian) ==
    IF dataSize = 16
    THEN IF endian # "be"
         THEN ToInt(Read(data, currentOffset))
                + ToInt(Read(data, currentOffset + 1)) * 256
         ELSE ToInt(Read(data, currentOffset)) * 256
                + ToInt(Read(data, currentOffset + 1))
    ELSE ToInt(Read(data, currentOffset))

\* the raw value of the cell at currentOffset
ReadRaw(data, currentOffset, dataSize, endian) ==
    IF dataSize = 16
    THEN IF endian = "le"
         THEN ToInt(Read(data, currentOffset))
                + ToInt(Read(data, currentOffset + 1)) * 256
         ELSE ToInt(Read(data, currentOffset)) * 256
                + ToInt(Read(data, currentOffset + 1))
    ELSE ToInt(Read(data, currentOffset))

\* variant: a cell ending exactly at the buffer end is taken as overflowing
RECURSIVE ExtractRow_strictBound(_, _, _, _, _)
ExtractRow_strictBound(data, map, c, currentOffset, row) ==
    IF c >= map.cols THEN [row |-> row, off |-> currentOffset]
    ELSE LET step == map.dataSize \div 8
         IN IF currentOffset + step >= data.length
            THEN ExtractRow_strictBound(data, map, c + 1, currentOffset,
                                        Append(row, R(0)))
            ELSE LET rawValue == ReadRaw(data, currentOffset, map.dataSize, map.endian)
                 IN ExtractRow_strictBound(data, map, c + 1, currentOffset + step,
                        Append(row, ToFixed3(evaluateFormula(map.formula, rawValue))))

\* the inner loop over c: [row, off] after the columns c..cols-1
RECURSIVE ExtractRow(_, _, _, _, _)
ExtractRow(data, map, c, currentOffset, row) ==
    IF c >= map.cols THEN [row |-> row, off |-> currentOffset]
    ELSE LET step == map.dataSize \div 8
         IN IF currentOffset + step > data.length
            THEN ExtractRow(data, map, c + 1, currentOffset, Append(row, R(0)))
            ELSE LET rawValue == ReadRaw(data, currentOffset, map.dataSize, map.endian)
                 IN ExtractRow(data, map, c + 1, currentOffset + step,
                        Append(row, ToFixed3(evaluateFormula(map.formula, rawValue))))

\* the outer loop over r
RECURSIVE ExtractRows(_, _, _, _, _)
ExtractRows(data, map, r, currentOffset, result) ==
    IF r >= map.rows THEN result
    ELSE LET done == ExtractRow(data, map, 0, currentOffset, <<>>)
         IN ExtractRows(data, map, r + 1, done.off, Append(result, done.row))

extractMapData(data, map) == ExtractRows(data, map, 0, map.offset, <<>>)

\* currentOffset after the rows r..rows-1: a cell on the zero-fill path does
\* not advance it
RECURSIVE ExtractEnd(_, _, _, _)
ExtractEnd(data, map, r, currentOffset) ==
    IF r >= map.rows THEN currentOffset
    ELSE LET off == ExtractRow(data, map, 0, currentOffset, <<>>).off
         IN \* off is currentOffset when the whole row was zero-filled
            IF off = currentOffset THEN ExtractEnd(data, map, r + 1, currentOffset)
            ELSE ExtractEnd(data, map, r + 1, off)

(***************************************************************************)
(* Write path (App.tsx handleSaveRom).                                     *)
(***************************************************************************)
\* variant: the raw value wraps modulo 256
Clamp8_wraps(raw) == raw % 256

\* Math.max(0, Math.min(255, raw))
Clamp8(raw) == IF raw < 0 THEN 0 ELSE IF raw > 255 THEN 255 ELSE raw

\* variant: a 16-bit raw value is truncated into 0..65535
WriteCell_clamps16(data, map, currentOffset, raw) ==
    LET word == IF raw < 0 THEN 0 ELSE IF raw > 65535 THEN 65535 ELSE raw
    IN IF map.dataSize = 16
       THEN IF map.endian = "le"
            THEN Write(Write(data, currentOffset, word % 256),
                       currentOffset + 1, word \div 256)
            ELSE Write(Write(data, currentOffset, word \div 256),
                       currentOffset + 1, word % 256)
       ELSE Write(data, currentOffset, Clamp8(raw))

\* the body of the cell loop: the bytes stored for one cell
WriteCell(data, map, currentOffset, raw) ==
    IF map.dataSize = 16
    THEN IF map.endian = "le"
         THEN Write(Write(data, currentOffset, raw % 256),
                    currentOffset + 1, (raw \div 256) % 256)
         ELSE Write(Write(data, currentOffset, (raw \div 256) % 256),
                    currentOffset + 1, raw % 256)
    ELSE Write(data, currentOffset, Clamp8(raw))

\* variant: currentOffset is not advanced
RECURSIVE WriteCells_fixedOffset(_, _, _, _, _)
WriteCells_fixedOffset(data, map, grid, k, currentOffset) ==
    IF k >= map.rows * map.cols THEN data
    ELSE LET r == k \div map.cols
             c == k % map.cols
             raw == reverseFormula(map.formula, grid[r + 1][c + 1], map.dataSize)
         IN WriteCells_fixedOffset(WriteCell(data, map, currentOffset, raw), map, grid,
                       k + 1, currentOffset)

\* the loops over r and c, k = r * cols + c
RECURSIVE WriteCells(_, _, _, _, _)
WriteCells(data, map, grid, k, currentOffset) ==
    IF k >= map.rows * map.cols THEN data
    ELSE LET r == k \div map.cols
             c == k % map.cols
             raw == reverseFormula(map.formula, grid[r + 1][c + 1], map.dataSize)
         IN WriteCells(WriteCell(data, map, currentOffset, raw), map, grid,
                       k + 1, currentOffset + (map.dataSize \div 8))

(***************************************************************************)
(* Identity discovery (romParser.ts findBoschIDWithOffset).  A string is   *)
(* the sequence of its character codes.  A run gives the result (NotFound  *)
(* for undefined) and the lowest index a backward walk has read.           *)
(***************************************************************************)
NotFound == [found |-> FALSE]

Found(val, offset) == [found |-> TRUE, val |-> val, offset |-> offset]

\* String.fromCharCode of the n bytes from offset a on
BytesOf(data, a, n) == [k \in 1..n |-> Read(data, a + k - 1)]

\* charCode >= 48 && charCode <= 57
IsDigit(charCode) == charCode >= 48 /\ charCode <= 57

\* space, dot, dash, null
IsSeparator(charCode) == charCode \in {32, 46, 45, 0}

\* prefix.split('').reverse().join('')
Reverse(seq) == [k \in 1..Len(seq) |-> seq[Len(seq) + 1 - k]]

\* the inner loop over j: data[i + j] === prefixBytes[j] for every j
PrefixAt(data, prefixBytes, i) ==
    \A j \in 1..Len(prefixBytes) : Read(data, i + j - 1) = prefixBytes[j]

\* the positions below length-15 at which the prefix test can succeed: those
\* whose bytes are not all plain fill bytes, and every position when the
\* prefix consists of fill bytes only
MatchStops(data, prefixBytes) ==
    IF \A j \in 1..Len(prefixBytes) : prefixBytes[j] = data.fill
    THEN 0..(data.length - 16)
    ELSE { i \in { k - j : k \in DOMAIN data.at, j \in 0..(Len(prefixBytes) - 1) } :
             i >= 0 /\ i < data.length - 15 }

\* the first position at or after i the for loop can match at
NextMatchStop(data, prefixBytes, i) ==
    LET ahead == { j \in MatchStops(data, prefixBytes) : j >= i }
    IN IF ahead = {} THEN data.length ELSE SetMin(ahead)

\* variant: the digits are kept in storage order
RECURSIVE BackwardWalk_storageOrder(_, _, _, _, _)
BackwardWalk_storageOrder(data, p, foundCount, tempString, low) ==
    IF foundCount < 10 /\ p >= 0
    THEN LET charCode == Read(data, p)
             seen == IF p < low THEN p ELSE low
         IN IF IsDigit(charCode)
            THEN BackwardWalk_storageOrder(data, p - 1, foundCount + 1,
                                           <<charCode>> \o tempString, seen)
            ELSE IF foundCount > 0
            THEN [foundCount |-> foundCount, tempString |-> tempString,
                  p |-> p, low |-> seen]
            ELSE BackwardWalk_storageOrder(data, p - 1, foundCount, tempString, seen)
    ELSE [foundCount |-> foundCount, tempString |-> tempString, p |-> p, low |-> low]

\* variant: the walk is not bounded by p >= 0
RECURSIVE BackwardWalk_unbounded(_, _, _, _, _)
BackwardWalk_unbounded(data, p, foundCount, tempString, low) ==
    IF foundCount < 10
    THEN LET charCode == Read(data, p)
             seen == IF p < low THEN p ELSE low
         IN IF IsDigit(charCode)
            THEN BackwardWalk_unbounded(data, p - 1, foundCount + 1,
                                        Append(tempString, charCode), seen)
            ELSE IF foundCount > 0 \/ p < 0 - 1
            THEN [foundCount |-> foundCount, tempString |-> tempString,
                  p |-> p, low |-> seen]
            ELSE BackwardWalk_unbounded(data, p - 1, foundCount, tempString, seen)
    ELSE [foundCount |-> foundCount, tempString |-> tempString, p |-> p, low |-> low]

\* while (foundCount < 10 && p >= 0) of the reversed branch
RECURSIVE BackwardWalk(_, _, _, _, _)
BackwardWalk(data, p, foundCount, tempString, low) ==
    IF foundCount < 10 /\ p >= 0
    THEN LET charCode == Read(data, p)
             seen == IF p < low THEN p ELSE low
         IN IF IsDigit(charCode)
            THEN BackwardWalk(data, p - 1, foundCount + 1,
                              Append(tempString, charCode), seen)
            ELSE IF foundCount > 0
            THEN [foundCount |-> foundCount, tempString |-> tempString,
                  p |-> p, low |-> seen]
            ELSE BackwardWalk(data, p - 1, foundCount, tempString, seen)
    ELSE [foundCount |-> foundCount, tempString |-> tempString, p |-> p, low |-> low]

\* the index after a run of plain fill bytes that starts at p
AfterFill(data, p) ==
    LET ahead == { k \in DOMAIN data.at : k > p }
    IN IF ahead = {} THEN data.length ELSE SetMin(ahead)

\* while (foundCount < 10 && p < data.length) of the forward branch; a run of
\* separator fill bytes is passed in one step
RECURSIVE ForwardWalk(_, _, _, _)
ForwardWalk(data, p, foundCount, result) ==
    IF foundCount < 10 /\ p < data.length
    THEN LET charCode == Read(data, p)
         IN IF IsDigit(charCode)
            THEN ForwardWalk(data, p + 1, foundCount + 1, Append(result, charCode))
            ELSE IF ~IsSeparator(charCode)
            THEN [foundCount |-> foundCount, result |-> result]
            ELSE IF p \in DOMAIN data.at
            THEN ForwardWalk(data, p + 1, foundCount, result)
            ELSE ForwardWalk(data, AfterFill(data, p), foundCount, result)
    ELSE [foundCount |-> foundCount, result |-> result]

\* the for loop over i from position i on
RECURSIVE MatchLoop(_, _, _, _, _)
MatchLoop(data, prefix, reversed, i, low) ==
    LET prefixBytes == IF reversed THEN Reverse(prefix) ELSE prefix
    IN IF i >= data.length - 15 THEN [result |-> NotFound, walkLow |-> low]
       ELSE IF ~PrefixAt(data, prefixBytes, i)
       THEN MatchLoop(data, prefix, reversed,
                      NextMatchStop(data, prefixBytes, i + 1), low)
       ELSE IF reversed
       THEN LET w == BackwardWalk(data, i + Len(prefixBytes) - 1, 0, <<>>, low)
            IN IF w.foundCount = 10
               THEN [result |-> Found(w.tempString, w.p + 1), walkLow |-> w.low]
               ELSE MatchLoop(data, prefix, reversed,
                              NextMatchStop(data, prefixBytes, i + 1), w.low)
       ELSE LET w == ForwardWalk(data, i + Len(prefixBytes), Len(prefix), prefix)
            IN IF w.foundCount = 10
               THEN [result |-> Found(w.result, i), walkLow |-> low]
               ELSE MatchLoop(data, prefix, reversed,
                              NextMatchStop(data, prefixBytes, i + 1), low)

findBoschIDRun(data, prefix, reversed) ==
    MatchLoop(data, prefix, reversed,
              NextMatchStop(data, IF reversed THEN Reverse(prefix) ELSE prefix, 0),
              data.length)

findBoschIDWithOffset(data, prefix, reversed) ==
    findBoschIDRun(data, prefix, reversed).result

\* '0261' and '1267'
HwPrefix == << 48, 50, 54, 49 >>

SwPrefix == << 49, 50, 54, 55 >>

\* "1267123456" and "0261200520"
SwId == SwPrefix \o << 49, 50, 51, 52, 53, 54 >>

HwId == HwPrefix \o << 50, 48, 48, 53, 50, 48 >>

\* a pattern is the sequence of the classes of its characters: /\d{3}\.\d{2}/
\* and /\d{5}[A-Z]{2}\d{4}/
IdNumPattern == << "d", "d", "d", ".", "d", "d" >>

LabelPattern == << "d", "d", "d", "d", "d", "A", "A", "d", "d", "d", "d" >>

\* the character decoded from byte b belongs to class cls; b is undefined
\* past the end of the content
InClass(b, cls) ==
    CASE cls = "d" -> IsDigit(b)
      [] cls = "." -> b = 46
      [] cls = "A" -> b >= 65 /\ b <= 90

PatternAt(data, pattern, i) ==
    \A j \in 1..Len(pattern) : InClass(Read(data, i + j - 1), pattern[j])

\* content.match(regex): the match at the lowest index.  No class holds two
\* different kinds of byte, so a match needs a byte that is not plain fill
\* unless the pattern has one class only.
findPatternWithOffset(data, pattern) ==
    LET stops == IF \A j \in 1..Len(pattern) : InClass(data.fill, pattern[j])
                 THEN 0..(data.length - Len(pattern))
                 ELSE { k - j : k \in DOMAIN data.at, j \in 0..(Len(pattern) - 1) }
        matches == { i \in stops : i >= 0 /\ PatternAt(data, pattern, i) }
    IN IF matches = {} THEN NotFound
       ELSE Found(BytesOf(data, SetMin(matches), Len(pattern)), SetMin(matches))

\* a value of type string | undefined
Str(text) == [undefined |-> FALSE, text |-> text]

UndefinedStr == [undefined |-> TRUE, text |-> <<>>]

\* 'Unknown'
Unknown == << 85, 110, 107, 110, 111, 119, 110 >>

\* the identityPatterns.forEach of parse: the version object
\* result = findBoschIDWithOffset(data, prefix) || findBoschIDWithOffset(data, prefix, true)
PrefixedId(data, prefix) ==
    LET forward == findBoschIDWithOffset(data, prefix, FALSE)
    IN IF forward.found THEN forward ELSE findBoschIDWithOffset(data, prefix, TRUE)

Version(data) ==
    LET hw == PrefixedId(data, HwPrefix)
        sw == PrefixedId(data, SwPrefix)
        id == findPatternWithOffset(data, IdNumPattern)
        label == findPatternWithOffset(data, LabelPattern)
    IN [hw |-> IF hw.found THEN Str(hw.val) ELSE Str(Unknown),
        sw |-> IF sw.found THEN Str(sw.val) ELSE Str(Unknown),
        id |-> IF id.found THEN Str(id.val) ELSE UndefinedStr,
        label |-> IF label.found THEN Str(label.val) ELSE UndefinedStr]

(***************************************************************************)
(* Structure scan (romParser.ts findSelfPointerBlocks and                  *)
(* findMasterIndexLists).  Of findSelfPointerBlocks only the little-endian *)
(* loop runs: the big-endian loop of lines 181-195 is commented out in the *)
(* source.                                                                 *)
(***************************************************************************)
\* data[i] | (data[i + 1] << 8)
WordLE(data, i) == ToInt(Read(data, i)) + ToInt(Read(data, i + 1)) * 256

\* (data[i] << 8) | data[i + 1]
WordBE(data, i) == ToInt(Read(data, i)) * 256 + ToInt(Read(data, i + 1))

\* the even offsets below length-1 whose word is not the plain fill word, and
\* the one offset where the fill word equals its own offset: no other offset
\* can satisfy a test of the scan loops
ScanStops(data) ==
    { j \in { k - (k % 2) : k \in DOMAIN data.at } \cup { 257 * data.fill } :
        j % 2 = 0 /\ j >= 0 /\ j < data.length - 1 }

\* the first offset at or after i the for loop can stop at; length when none
NextStop(data, i) ==
    LET ahead == { j \in ScanStops(data) : j >= i }
    IN IF ahead = {} THEN data.length + (data.length % 2) ELSE SetMin(ahead)

\* variant: the run is closed after its first word
SelfRunLength_one(data, i, count) == count + 1

\* while (i < data.length - 1 && word(i) === i) { count++; i += 2; }
RECURSIVE SelfRunLength(_, _, _)
SelfRunLength(data, i, count) ==
    IF i < data.length - 1 /\ WordLE(data, i) = i
    THEN SelfRunLength(data, i + 2, count + 1)
    ELSE count

\* blocks.find(b => b.offset === start) is defined
HasOffset(blocks, start) == \E k \in 1..Len(blocks) : blocks[k].offset = start

\* the little-endian for loop from offset i on
RECURSIVE SelfScan(_, _, _)
SelfScan(data, i, blocks) ==
    IF i >= data.length - 1 THEN blocks
    ELSE IF WordLE(data, i) = i
    THEN LET count == SelfRunLength(data, i, 0)
             pushed == IF HasOffset(blocks, i) THEN blocks
                       ELSE Append(blocks, [offset |-> i, length |-> count,
                                            endian |-> "le"])
         IN SelfScan(data, i + 2 * count, pushed)
    ELSE SelfScan(data, NextStop(data, i + 2), blocks)

\* variant: no sort, the blocks stay in the order found
SortByLength_unsorted(blocks, k, sorted) == blocks

\* Array.prototype.sort((a, b) => b.length - a.length): stable, longest first
RECURSIVE SortByLength(_, _, _)
SortByLength(blocks, k, sorted) ==
    IF k > Len(blocks) THEN sorted
    ELSE LET b == blocks[k]
             before == { j \in 1..Len(sorted) : sorted[j].length >= b.length }
             n == Cardinality(before)
         IN SortByLength(blocks, k + 1,
                         SubSeq(sorted, 1, n) \o <<b>> \o SubSeq(sorted, n + 1, Len(sorted)))

\* slice(0, n)
Slice(seq, n) == SubSeq(seq, 1, IF Len(seq) < n THEN Len(seq) ELSE n)

MaxSelfPointerBlocks == 15

findSelfPointerBlocks(data) ==
    Slice(SortByLength(SelfScan(data, 0, <<>>), 1, <<>>), MaxSelfPointerBlocks)

\* the first even offset the loop `i < data.length - 1` does not enter
ScanEnd(data) == data.length - (data.length % 2)

\* the even offsets whose word is not the plain fill word
WordStops(data) == { k - (k % 2) : k \in DOMAIN data.at }

\* the first offset at or after i whose word is not the plain fill word; the
\* end of the loop when none
NextWordStop(data, i) ==
    LET ahead == { j \in WordStops(data) : j >= i /\ j < ScanEnd(data) }
    IN IF ahead = {} THEN ScanEnd(data) ELSE SetMin(ahead)

\* currentVal > 0 && currentVal < data.length
InRange(data, currentVal) == currentVal > 0 /\ currentVal < data.length

\* misses < 2
MissLimit == 2

\* while (i < data.length - 1 && misses < 2) { ... i += 2 }: i, count and
\* misses when the loop is left.  A stretch of plain fill words that are
\* anchors is counted in one step.
RECURSIVE MasterRun(_, _, _, _, _)
MasterRun(data, anchors, i, count, misses) ==
    IF i < data.length - 1 /\ misses < MissLimit
    THEN LET currentVal == WordBE(data, i)
         IN IF currentVal \in anchors
            THEN IF i \in WordStops(data)
                 THEN MasterRun(data, anchors, i + 2, count + 1, 0)
                 ELSE LET n == NextWordStop(data, i + 2)
                      IN MasterRun(data, anchors, n, count + (n - i) \div 2, 0)
            ELSE IF InRange(data, currentVal)
            THEN MasterRun(data, anchors, i + 2, count + 1, misses + 1)
            ELSE [i |-> i, count |-> count, misses |-> misses]
    ELSE [i |-> i, count |-> count, misses |-> misses]

\* if (count >= 4)
MinListCount == 4

\* the for loop of findMasterIndexLists from offset i on
RECURSIVE MasterScan(_, _, _, _)
MasterScan(data, anchors, i, lists) ==
    IF i >= data.length - 1 THEN lists
    ELSE IF WordBE(data, i) \in anchors
    THEN LET run == MasterRun(data, anchors, i, 0, 0)
             pushed == IF run.count >= MinListCount
                       THEN Append(lists, [offset |-> i,
                                           length |-> run.count - run.misses])
                       ELSE lists
         IN MasterScan(data, anchors, run.i - 2 + 2, pushed)
    ELSE IF i \in WordStops(data)
    THEN MasterScan(data, anchors, i + 2, lists)
    ELSE MasterScan(data, anchors, NextWordStop(data, i + 2), lists)

MaxMasterLists == 10

findMasterIndexLists(data, anchors) ==
    IF anchors = {} THEN <<>>
    ELSE Slice(SortByLength(MasterScan(data, anchors, 0, <<>>), 1, <<>>),
               MaxMasterLists)

\* discoveredAnchors: block.offset + i * 2 for every i below block.length
discoveredAnchors(selfPointerBlocks) ==
    UNION { { selfPointerBlocks[k].offset + 2 * i :
                i \in 0..(selfPointerBlocks[k].length - 1) } :
            k \in 1..Len(selfPointerBlocks) }

(***************************************************************************)
(* The application: loader dialog, tuner state and export.                 *)
(***************************************************************************)
Map(id, offset, dataSize, endian, rows, cols, formula) ==
    [id |-> id, offset |-> offset, dataSize |-> dataSize, endian |-> endian,
     rows |-> rows, cols |-> cols, formula |-> formula]

\* rom.detectedMaps.find(m => m.id === selectedMapId): NULL when none
RECURSIVE FindMap(_, _, _)
FindMap(maps, id, k) ==
    IF k > Len(maps) THEN NULL
    ELSE IF maps[k].id = id THEN maps[k] ELSE FindMap(maps, id, k + 1)

\* Number.prototype.toString(16)
HexDigits ==
    << "0", "1", "2", "3", "4", "5", "6", "7", "8", "9", "a", "b", "c", "d", "e", "f" >>

RECURSIVE Hex(_)
Hex(n) == IF n < 16 THEN HexDigits[n + 1]
          ELSE Hex(n \div 16) \o HexDigits[(n % 16) + 1]

\* a DiagnosticEntry: its label, type, offset and size
Diagnostic(label, type, offset, size) ==
    [label |-> label, type |-> type, offset |-> offset, size |-> size]

\* identityPatterns with the result of each matcher, in the order of the forEach
IdentityResults(data) ==
    << [id |-> "hw_id", label |-> "Hardware ID",
        result |-> PrefixedId(data, HwPrefix)],
       [id |-> "sw_id", label |-> "Software ID",
        result |-> PrefixedId(data, SwPrefix)],
       [id |-> "id_num", label |-> "ID / Release",
        result |-> findPatternWithOffset(data, IdNumPattern)],
       [id |-> "label1_num", label |-> "Production Label1",
        result |-> findPatternWithOffset(data, LabelPattern)] >>

\* the entries pushed inside `if (result)`
IdentityFound(data) ==
    LET Hit(e) == e.result.found
    IN SelectSeq(IdentityResults(data), Hit)

\* the diagnostics and maps pushed by the three passes of parse, in order
IdentityDiagnostics(found) ==
    [k \in 1..Len(found) |->
        Diagnostic(found[k].label, "identity", found[k].result.offset,
                   Len(found[k].result.val))]

IdentityMaps(found) ==
    [k \in 1..Len(found) |->
        Map("ident_" \o found[k].id, found[k].result.offset, 8, "none",
            1, Len(found[k].result.val), "X")]

SelfPointerDiagnostics(blocks) ==
    [k \in 1..Len(blocks) |->
        Diagnostic("Self-Pointer Anchor", "structure", blocks[k].offset,
                   blocks[k].length * 2)]

\* variant: the rows are the block's size in bytes
SelfPointerMaps_byteRows(blocks) ==
    [k \in 1..Len(blocks) |->
        Map("sp_list_" \o Hex(blocks[k].offset), blocks[k].offset, 16,
            blocks[k].endian, blocks[k].length * 2, 1, "X")]

SelfPointerMaps(blocks) ==
    [k \in 1..Len(blocks) |->
        Map("sp_list_" \o Hex(blocks[k].offset), blocks[k].offset, 16,
            blocks[k].endian, blocks[k].length, 1, "X")]

MasterDiagnostics(lists) ==
    [k \in 1..Len(lists) |->
        Diagnostic("Location Index", "structure", lists[k].offset,
                   lists[k].length * 2)]

MasterMaps(lists) ==
    [k \in 1..Len(lists) |->
        Map("ml_list_" \o Hex(lists[k].offset), lists[k].offset, 16, "be",
            lists[k].length, 1, "X")]

\* ROMParser.parse
parse(buffer) ==
    LET found == IdentityFound(buffer)
        selfPointerBlocks == findSelfPointerBlocks(buffer)
        masterLists == findMasterIndexLists(buffer, discoveredAnchors(selfPointerBlocks))
    IN [data |-> buffer,
        size |-> buffer.length,
        detectedMaps |-> IdentityMaps(found) \o SelfPointerMaps(selfPointerBlocks)
                           \o MasterMaps(masterLists),
        checksum16 |-> calculateSummation16(buffer),
        checksumValid |-> verifyChecksum(buffer),
        diagnostics |-> << Diagnostic("Checksum (16-bit Sum)", "integrity",
                                      buffer.length - 2, 2) >>
                          \o IdentityDiagnostics(found)
                          \o SelfPointerDiagnostics(selfPointerBlocks)
                          \o MasterDiagnostics(masterLists),
        version |-> Version(buffer)]

\* the effect on [rom, selectedMapId] (App.tsx:513): the grid of the selection
EditingDataFor(r, id) ==
    IF r = NULL THEN NoGrid
    ELSE LET selectedMap == FindMap(r.detectedMaps, id, 1)
         IN IF selectedMap = NULL THEN NoGrid
            ELSE extractMapData(r.data, selectedMap)

\* the cell loop of handleSaveRom: the bytes of the exported copy
SaveCells(r, id, grid) ==
    LET selectedMap == FindMap(r.detectedMaps, id, 1)
    IN IF selectedMap # NULL /\ grid # NoGrid
       THEN WriteCells(r.data, selectedMap, grid, 0, selectedMap.offset)
       ELSE r.data

\* newData[0xFFFE] = (newSum >> 8) & 0xFF; newData[0xFFFF] = newSum & 0xFF
StampChecksum(newData) ==
    LET newSum == calculateCorrectChecksum(newData)
    IN Write(Write(newData, 65534, (newSum \div 256) % 256), 65535, newSum % 256)

\* ---- inputs of the application run ----
NoBytes == [j \in {} |-> 0]

\* a buffer of len bytes, all fill, then the listed bytes written
RECURSIVE WithBytes(_, _, _)
WithBytes(data, offset, bytes) ==
    IF bytes = <<>> THEN data
    ELSE WithBytes(Write(data, offset, Head(bytes)), offset + 1, Tail(bytes))

\* an image of len bytes of fill whose final two bytes are hi, lo
Image(len, fill, hi, lo) == WithBytes(Buf(len, fill, NoBytes), len - 2, <<hi, lo>>)

\* 64 bytes of 0xFF holding the hardware ID at 16, the software ID stored
\* backwards at 30 and "123.45" at 44
IdentImage ==
    WithBytes(WithBytes(WithBytes(Buf(64, 255, NoBytes), 16, HwId),
                        30, Reverse(SwId)),
              44, << 49, 50, 51, 46, 52, 53 >>)

RomImages ==
    { WithBytes(Buf(12, 0, NoBytes), 10, <<4, 8>>),
      WithBytes(Buf(14, 0, NoBytes), 10, <<4, 8, 12, 16>>),
      WithBytes(Buf(16, 255, NoBytes), 10, <<1, 0, 0, 255>>),
      Image(16383, 0, 0, 0),
      Image(16384, 0, 18, 52),
      Image(32768, 0, 18, 52),
      Image(65536, 0, 18, 52),
      Image(32768, 1, 127, 254),
      IdentImage }

\* definitions a ROM can be opened with (VersionInfo.maps)
DefinitionLibrary ==
    { << Map("c6", 10, 8, "none", 2, 2, "X/4") >>,
      << Map("id8", 10, 8, "none", 1, 2, "X"),
         Map("id16be", 10, 16, "be", 1, 2, "X"),
         Map("id16le", 10, 16, "le", 2, 1, NoFormula),
         Map("id16", 10, 16, "none", 1, 2, "X") >>,
      << Map("tail", 65532, 8, "none", 2, 2, "X") >>,
      << Map("edge16", 13, 16, "be", 2, 1, "X") >> }

\* values typed into a cell
CellInputs == { Rat(1, 2), R(300), R(0 - 7), R(65836) }

\* offsets and values typed into the hex editor
EditOffsets(r) == IF r = NULL THEN {} ELSE { 10, r.data.length - 1 }

\* the ids listed in the tuner's sidebar
MapIds(r) ==
    IF r = NULL THEN {}
    ELSE { r.detectedMaps[k].id : k \in 1..Len(r.detectedMaps) }

EditBytes == { 52 }

\* ---- actions ----
Init ==
    /\ tempRom = NULL
    /\ rom = NULL
    /\ selectedMapId = NoMapId
    /\ editingData = NoGrid
    /\ exported = NULL
    /\ arg = NULL
    /\ ret = NULL

\* ROMParser.parse of every image, computed once
Parsed == [buffer \in RomImages |-> parse(buffer)]

\* ROMLoader.tsx handleProcessBuffer: parse the picked file, show the review
handleProcessBuffer(buffer) ==
    /\ tempRom = NULL
    /\ tempRom' = Parsed[buffer]
    /\ exported' = NULL
    /\ UNCHANGED <<rom, selectedMapId, editingData, arg, ret>>

\* ROMLoader.tsx onCancel: the dialog is dismissed
onCancel ==
    /\ tempRom # NULL
    /\ tempRom' = NULL
    /\ exported' = NULL
    /\ UNCHANGED <<rom, selectedMapId, editingData, arg, ret>>

\* ROMLoader.tsx handleFinalConfirm with a definition, then App.tsx
\* handleRomLoaded: the definition's maps replace the detected ones
handleRomLoadedWithDefinition(maps) ==
    /\ tempRom # NULL
    /\ rom' = [tempRom EXCEPT !.detectedMaps = maps]
    /\ selectedMapId' = NoMapId
    /\ editingData' = EditingDataFor(rom', NoMapId)
    /\ tempRom' = NULL
    /\ exported' = NULL
    /\ UNCHANGED <<arg, ret>>

\* the same with 'heuristic' selected: the ParseResult is taken as it is
handleRomLoadedHeuristic ==
    /\ tempRom # NULL
    /\ rom' = tempRom
    /\ selectedMapId' = NoMapId
    /\ editingData' = EditingDataFor(rom', NoMapId)
    /\ tempRom' = NULL
    /\ exported' = NULL
    /\ UNCHANGED <<arg, ret>>

\* the largest grid (rows * cols) a run opens in the tuner
MaxGridCells == 4

GridCells(map) == map.rows * map.cols

\* TunerModule: a map is picked; the effect extracts its grid
setSelectedMapId(id) ==
    /\ tempRom = NULL
    /\ rom # NULL
    /\ GridCells(FindMap(rom.detectedMaps, id, 1)) <= MaxGridCells
    /\ selectedMapId' = id
    /\ editingData' = EditingDataFor(rom, id)
    /\ exported' = NULL
    /\ UNCHANGED <<tempRom, rom, arg, ret>>

handleUpdateValue(r, c, val) ==
    /\ tempRom = NULL
    /\ editingData # NoGrid
    /\ r \in 1..Len(editingData)
    /\ c \in 1..Len(editingData[r])
    /\ editingData' = [editingData EXCEPT ![r][c] = val]
    /\ exported' = NULL
    /\ UNCHANGED <<tempRom, rom, selectedMapId, arg, ret>>

\* SurgeryModule onUpdateByte (App.tsx:840): the effect re-extracts the grid
onUpdateByte(o, v) ==
    /\ tempRom = NULL
    /\ rom # NULL
    /\ rom' = [rom EXCEPT !.data = Write(rom.data, o, v)]
    /\ editingData' = EditingDataFor(rom', selectedMapId)
    /\ exported' = NULL
    /\ UNCHANGED <<tempRom, selectedMapId, arg, ret>>

handleUnloadRom ==
    /\ tempRom = NULL
    /\ rom # NULL
    /\ rom' = NULL
    /\ selectedMapId' = NoMapId
    /\ editingData' = NoGrid
    /\ exported' = NULL
    /\ UNCHANGED <<tempRom, arg, ret>>

\* App.tsx:552 handleSaveRom: the cells are written, the copy is downloaded
handleSaveRom ==
    /\ tempRom = NULL
    /\ rom # NULL
    /\ exported' = [by |-> "handleSaveRom",
                    data |-> SaveCells(rom, selectedMapId, editingData)]
    /\ UNCHANGED <<tempRom, rom, selectedMapId, editingData, arg, ret>>

\* App.tsx:172 handleSaveRom: the cells are written, the checksum is stamped
\* at 0xFFFE, the copy is downloaded
handleSaveRomStamped ==
    /\ tempRom = NULL
    /\ rom # NULL
    /\ exported' = [by |-> "handleSaveRomStamped",
                    data |-> StampChecksum(SaveCells(rom, selectedMapId, editingData))]
    /\ UNCHANGED <<tempRom, rom, selectedMapId, editingData, arg, ret>>

Next ==
    \/ \E buffer \in RomImages : handleProcessBuffer(buffer)
    \/ onCancel
    \/ \E maps \in DefinitionLibrary : handleRomLoadedWithDefinition(maps)
    \/ handleRomLoadedHeuristic
    \/ \E id \in MapIds(rom) : setSelectedMapId(id)
    \/ \E r \in 1..2, c \in 1..2, val \in CellInputs : handleUpdateValue(r, c, val)
    \/ \E o \in EditOffsets(rom), v \in EditBytes : onUpdateByte(o, v)
    \/ handleUnloadRom
    \/ handleSaveRom
    \/ handleSaveRomStamped

Spec == Init /\ [][Next]_vars

(***************************************************************************)
(* ChecksumUnit run: verifyChecksum and calculateCorrectChecksum applied   *)
(* to buffers of every length class, the bytes changing between calls.     *)
(***************************************************************************)
MaxSmallLen == 3

ChecksumLengths ==
    (0..MaxSmallLen) \cup
    { MinRomSize - 1, MinRomSize, MinRomSize + MaxSmallLen, 32768, 65536 }

ChecksumBytes == { 0, 7, 255 }

ChecksumBuffers ==
    { WithBytes(WithBytes(Buf(len, fill, NoBytes), 0, <<first>>), len - 2, <<hi, lo>>) :
        len \in ChecksumLengths, fill \in {0, 255}, first \in {0, 7},
        hi \in ChecksumBytes, lo \in ChecksumBytes }

InitChecksum ==
    /\ arg \in { [data |-> d] : d \in ChecksumBuffers }
    /\ ret = NULL
    /\ tempRom = NULL /\ rom = NULL /\ selectedMapId = NoMapId
    /\ editingData = NoGrid /\ exported = NULL

appVars == <<tempRom, rom, selectedMapId, editingData, exported>>

\* newData[o] = v on the buffer under test
writeByte(o, v) ==
    /\ arg' = [arg EXCEPT !.data = Write(arg.data, o, v)]
    /\ UNCHANGED <<ret, appVars>>

callVerifyChecksum ==
    /\ ret' = [fn |-> "verifyChecksum", data |-> arg.data,
               val |-> verifyChecksum(arg.data)]
    /\ UNCHANGED <<arg, appVars>>

callCalculateCorrectChecksum ==
    /\ ret' = [fn |-> "calculateCorrectChecksum", data |-> arg.data,
               val |-> calculateCorrectChecksum(arg.data)]
    /\ UNCHANGED <<arg, appVars>>

NextChecksum ==
    \/ \E o \in {0, arg.data.length - 2, arg.data.length - 1}, v \in {0, 7} :
          writeByte(o, v)
    \/ callVerifyChecksum
    \/ callCalculateCorrectChecksum

SpecChecksum == InitChecksum /\ [][NextChecksum]_vars

\* ---- statements about the checksum ----
RECURSIVE SetSum(_, _)
SetSum(S, f) ==
    IF S = {} THEN 0
    ELSE LET x == CHOOSE y \in S : TRUE IN f[x] + SetSum(S \ {x}, f)

\* the sum of the bytes at the offsets 0..last, as a plain integer
ByteSum(data, last) ==
    LET listed == { j \in DOMAIN data.at : j <= last }
    IN SetSum(listed, data.at) + data.fill * ((last + 1) - Cardinality(listed))

\* the big-endian value of the final two bytes
StoredTrailer(data) ==
    Read(data, data.length - 2) * 256 + Read(data, data.length - 1)

\* C2: verifyChecksum is true exactly for a buffer of at least 0x4000 bytes
\* whose calculateCorrectChecksum equals the big-endian value of its final two
\* bytes; every shorter buffer, the empty and the one-byte one included, gives
\* false.
C2_VerifyIffStored ==
    ret # NULL /\ ret.fn = "verifyChecksum" =>
        /\ ret.val \in BOOLEAN
        /\ ret.data.length < 16384 => ret.val = FALSE
        /\ ret.data.length >= 16384 =>
             (ret.val <=> calculateCorrectChecksum(ret.data) = StoredTrailer(ret.data))

\* a buffer of at least 0x4000 bytes with a nonzero checksum was found valid
C2_Witness ==
    ret # NULL /\ ret.fn = "verifyChecksum" /\ ret.val = TRUE
      /\ ret.data.length >= 16384 /\ StoredTrailer(ret.data) > 0

\* C3: calculateCorrectChecksum is the sum of all bytes but the final two,
\* modulo 65536; it lies in 0..65535, and a buffer that differs from the
\* summed one only in its final two bytes has the same result.
SameButTrailer(a, b) ==
    /\ a.length = b.length
    /\ a.fill = b.fill
    /\ \A j \in (DOMAIN a.at) \cup (DOMAIN b.at) :
          j < a.length - 2 => Read(a, j) = Read(b, j)

C3_SumOfNonTrailer ==
    ret # NULL /\ ret.fn = "calculateCorrectChecksum" =>
        /\ ret.val \in 0..65535
        /\ ret.val = (IF ret.data.length < 2 THEN 0
                      ELSE ByteSum(ret.data, ret.data.length - 3) % 65536)
        /\ SameButTrailer(ret.data, arg.data) =>
             calculateCorrectChecksum(arg.data) = ret.val

\* the sum wrapped past 65535, and the trailer was rewritten after the call
C3_Witness ==
    ret # NULL /\ ret.fn = "calculateCorrectChecksum"
      /\ ByteSum(ret.data, ret.data.length - 3) > 65535
      /\ ret.data # arg.data /\ SameButTrailer(ret.data, arg.data)

(***************************************************************************)
(* extractMapData run: every small buffer against maps that lie inside,    *)
(* across and beyond its end.                                              *)
(***************************************************************************)
MaxBufLen == 4

ExtractBytes == { 1, 200 }

\* every buffer of up to MaxBufLen bytes over ExtractBytes
ExtractBuffers ==
    UNION { { Buf(len, 0, f) : f \in [0..(len - 1) -> ExtractBytes] } :
            len \in 0..MaxBufLen }

ExtractFormulas == { "X", "X/256", "X*-0.75 + 72", "Y" }

ExtractMaps ==
    { Map("m", offset, dataSize, endian, rows, cols, formula) :
        offset \in 0..MaxBufLen, dataSize \in {8, 16},
        endian \in {"be", "le", "none"}, rows \in 1..2, cols \in 1..2,
        formula \in ExtractFormulas }

InitExtract ==
    /\ arg \in { [data |-> d, map |-> m] : d \in ExtractBuffers, m \in ExtractMaps }
    /\ ret = NULL
    /\ tempRom = NULL /\ rom = NULL /\ selectedMapId = NoMapId
    /\ editingData = NoGrid /\ exported = NULL

callExtractMapData ==
    /\ ret' = [fn |-> "extractMapData", val |-> extractMapData(arg.data, arg.map)]
    /\ UNCHANGED <<arg, appVars>>

NextExtract == callExtractMapData

SpecExtract == InitExtract /\ [][NextExtract]_vars

\* ---- statements about extractMapData ----
\* the offset of the cell in row r, column c (from 1) of a row-major map
CellOffset(map, r, c) ==
    map.offset + ((r - 1) * map.cols + (c - 1)) * (map.dataSize \div 8)

CellOverflows(data, map, r, c) ==
    CellOffset(map, r, c) + (map.dataSize \div 8) > data.length

\* the raw value stored at a cell that lies inside the buffer: one byte, or
\* two bytes with the low address high unless the map is little-endian
RawAt(data, map, r, c) ==
    LET o == CellOffset(map, r, c)
    IN IF map.dataSize = 8 THEN data.at[o]
       ELSE IF map.endian = "le" THEN data.at[o] + 256 * data.at[o + 1]
       ELSE 256 * data.at[o] + data.at[o + 1]

GridShape(grid, map) ==
    /\ Len(grid) = map.rows
    /\ \A r \in 1..map.rows : Len(grid[r]) = map.cols

\* C5 as stated: the grid is rows x cols, an overflowing cell is 0, a cell
\* inside the buffer is the forward formula of its raw value.
C5_Original ==
    ret # NULL /\ ret.fn = "extractMapData" =>
        /\ GridShape(ret.val, arg.map)
        /\ \A r \in 1..arg.map.rows, c \in 1..arg.map.cols :
             ret.val[r][c] =
                IF CellOverflows(arg.data, arg.map, r, c) THEN R(0)
                ELSE evaluateFormula(arg.map.formula, RawAt(arg.data, arg.map, r, c))

\* C5 (amended): the grid is rows x cols, an overflowing cell is 0, a cell
\* inside the buffer is the forward formula of its raw value rounded to three
\* decimal places.
C5_ExtractShapeAndCells ==
    ret # NULL /\ ret.fn = "extractMapData" =>
        /\ GridShape(ret.val, arg.map)
        /\ \A r \in 1..arg.map.rows, c \in 1..arg.map.cols :
             ret.val[r][c] =
                IF CellOverflows(arg.data, arg.map, r, c) THEN R(0)
                ELSE ToFixed3(evaluateFormula(arg.map.formula,
                                              RawAt(arg.data, arg.map, r, c)))

\* a 16-bit 2 x 1 map whose first cell is inside and whose second cell starts
\* at the final byte of the buffer
C5_Witness ==
    /\ ret # NULL /\ ret.fn = "extractMapData"
    /\ arg.map.dataSize = 16 /\ arg.map.rows = 2 /\ arg.map.cols = 1
    /\ arg.map.formula = "X/256"
    /\ ~CellOverflows(arg.data, arg.map, 1, 1)
    /\ ret.val[1][1] # R(0)
    /\ CellOverflows(arg.data, arg.map, 2, 1)
    /\ CellOffset(arg.map, 2, 1) = arg.data.length - 1

(***************************************************************************)
(* FormulaEngine run: evaluateFormula and reverseFormula applied to every  *)
(* formula text over a range of numbers.                                   *)
(***************************************************************************)
MaxTarget == 3

\* the eighths from -1 to MaxTarget, and some values around the byte range
FormulaNumbers ==
    { Rat(n, 8) : n \in (0 - 8)..(8 * MaxTarget) } \cup
    { R(0 - 20), R(60), R(100), R(255), R(256), R(300) }

InitFormula ==
    /\ arg \in { [formula |-> f, num |-> v, dataSize |-> sz] :
                   f \in Formulas, v \in FormulaNumbers, sz \in {8, 16} }
    /\ ret = NULL
    /\ tempRom = NULL /\ rom = NULL /\ selectedMapId = NoMapId
    /\ editingData = NoGrid /\ exported = NULL

\* evaluateFormula(formula, x) for an integer x
callEvaluateFormula ==
    /\ arg.num.d = 1
    /\ ret' = [fn |-> "evaluateFormula",
               val |-> evaluateFormula(arg.formula, arg.num.n)]
    /\ UNCHANGED <<arg, appVars>>

\* reverseFormula(formula, target, dataSize)
callReverseFormula ==
    /\ ret' = [fn |-> "reverseFormula",
               val |-> reverseFormula(arg.formula, arg.num, arg.dataSize)]
    /\ UNCHANGED <<arg, appVars>>

NextFormula ==
    \/ callEvaluateFormula
    \/ callReverseFormula

SpecFormula == InitFormula /\ [][NextFormula]_vars

\* ---- statements about the formula engine ----
\* the call completes abnormally, with a non-number or with NaN
Unevaluable(formula, x) ==
    LET c == JsEval(TrimUpper(formula), x)
    IN c.throws \/ ~c.isNumber \/ IsNaN(c.val)

\* C10: evaluateFormula always returns a number that is not NaN; an absent
\* formula and the literal X give the input itself, and so does every
\* expression that is malformed or does not evaluate to a number, for negative
\* inputs too.
C10_EvaluateFailsSoft ==
    ret # NULL /\ ret.fn = "evaluateFormula" =>
        /\ ~IsNaN(ret.val)
        /\ arg.formula \in {NoFormula, "X"} => ret.val = arg.num
        /\ Unevaluable(arg.formula, arg.num.n) => ret.val = arg.num

\* 0/0 was evaluated: the NaN is replaced by the input
C10_Witness ==
    /\ ret # NULL /\ ret.fn = "evaluateFormula"
    /\ arg.formula = "X/0" /\ arg.num = R(0)
    /\ IsNaN(JsEval(TrimUpper(arg.formula), 0).val)
    /\ ret.val = R(0)

\* |forward(raw) - target|
Dist(formula, raw, target) == RAbs(RSub(evaluateFormula(formula, raw), target))

\* no raw byte is strictly closer to target than r is
Closest(formula, target, r) ==
    \A i \in 0..255 : ~RLess(Dist(formula, i, target), Dist(formula, r, target))

\* the raw bytes whose forward value is closest to target among the bytes
ClosestBytes(formula, target) ==
    { i \in 0..255 : \A j \in 0..255 :
          ~RLess(Dist(formula, j, target), Dist(formula, i, target)) }

\* the formulas reverseFormula inverts analytically whatever the data size
AnalyticText(formula) ==
    \/ formula \in {NoFormula, "X", "x"}
    \/ TrimUpper(formula) \in {"X/4", "X/256", "X*0.05"}

\* the shapes X/k and X*k with a nonzero constant k: [op, k]
ShapeFormulas == { "X/4", "x/4", "X/256", "X/2", "X*0.05", "X*40" }

ShapeOf(formula) ==
    CASE formula \in {"X/4", "x/4"} -> [op |-> "/", k |-> R(4)]
      [] formula = "X/256"          -> [op |-> "/", k |-> R(256)]
      [] formula = "X/2"            -> [op |-> "/", k |-> R(2)]
      [] formula = "X*0.05"         -> [op |-> "*", k |-> Rat(1, 20)]
      [] formula = "X*40"           -> [op |-> "*", k |-> R(40)]

\* round(target*k) for X/k, round(target/k) for X*k
AnalyticInverse(formula, target) ==
    IF formula \in {NoFormula, "X", "x"} THEN MathRound(target)
    ELSE LET sh == ShapeOf(formula)
         IN IF sh.op = "/" THEN MathRound(RMul(target, sh.k))
            ELSE MathRound(RDiv(target, sh.k))

\* C8 as stated: for every formula the 8-bit result has no raw byte strictly
\* closer, and of several equally close bytes the lowest is returned.
C8_Original ==
    ret # NULL /\ ret.fn = "reverseFormula" /\ arg.dataSize = 8 =>
        /\ Closest(arg.formula, arg.num, ret.val)
        /\ Cardinality(ClosestBytes(arg.formula, arg.num)) > 1 =>
             ret.val = SetMin(ClosestBytes(arg.formula, arg.num))

\* C8 (amended): a formula that takes the exhaustive search returns the lowest
\* of the closest raw bytes; an analytically inverted formula (absent, X, x,
\* X/4, X/256, X*0.05) returns the rounded analytic inverse, and for the
\* power-of-two ones no raw byte is strictly closer than that.
C8_ReverseClosest ==
    ret # NULL /\ ret.fn = "reverseFormula" /\ arg.dataSize = 8 =>
        IF AnalyticText(arg.formula)
        THEN /\ ret.val = AnalyticInverse(arg.formula, arg.num)
             /\ TrimUpper(arg.formula) # "X*0.05" =>
                  Closest(arg.formula, arg.num, ret.val)
        ELSE /\ Closest(arg.formula, arg.num, ret.val)
             /\ ret.val = SetMin(ClosestBytes(arg.formula, arg.num))

\* the search met a tie: X/2 at 0.25 lies between raw 0 and raw 1
C8_Witness ==
    /\ ret # NULL /\ ret.fn = "reverseFormula" /\ arg.dataSize = 8
    /\ arg.formula = "X/2" /\ arg.num = Rat(1, 4)
    /\ ClosestBytes(arg.formula, arg.num) = {0, 1}
    /\ ret.val = 0

\* C9 as stated: for X/k and X*k at both data sizes the result is the rounded
\* analytic inverse.
C9_Original ==
    ret # NULL /\ ret.fn = "reverseFormula" /\ arg.formula \in ShapeFormulas =>
        ret.val = AnalyticInverse(arg.formula, arg.num)

\* C9 (amended): the rounded analytic inverse is returned for X/k and X*k at
\* data size 16, and at data size 8 only for X/4, X/256 and X*0.05; any other
\* k at data size 8 gives the lowest closest raw byte of the exhaustive search.
C9_AnalyticInverse ==
    ret # NULL /\ ret.fn = "reverseFormula" /\ arg.formula \in ShapeFormulas =>
        IF arg.dataSize = 16 \/ AnalyticText(arg.formula)
        THEN ret.val = AnalyticInverse(arg.formula, arg.num)
        ELSE ret.val = SetMin(ClosestBytes(arg.formula, arg.num))

\* X*40 at data size 16 and target 300: 7.5 rounds to 8
C9_Witness ==
    /\ ret # NULL /\ ret.fn = "reverseFormula" /\ arg.dataSize = 16
    /\ arg.formula = "X*40" /\ arg.num = R(300)
    /\ ret.val = 8

\* ---- statements about the application ----
\* C1: after handleSaveRom on a loaded ROM of at least 16 KiB, whatever the
\* edits, the final two bytes of the exported buffer hold the big-endian
\* checksum of its other bytes, so verifyChecksum of the exported buffer is
\* true.
C1_ExportedChecksumValid ==
    exported # NULL /\ exported.data.length >= MinRomSize =>
        /\ StoredTrailer(exported.data) =
             ByteSum(exported.data, exported.data.length - 3) % 65536
        /\ verifyChecksum(exported.data)

\* C4: in the ParseResult checksum16 is the sum of the non-trailer bytes modulo
\* 65536, and for a buffer of at least the minimum size checksumValid is true
\* exactly when checksum16 equals the big-endian trailer.
C4_Checksum16IsChecksum ==
    tempRom # NULL =>
        /\ tempRom.checksum16 =
             ByteSum(tempRom.data, tempRom.data.length - 3) % 65536
        /\ tempRom.data.length >= MinRomSize =>
             (tempRom.checksumValid <=>
                tempRom.checksum16 = StoredTrailer(tempRom.data))

\* the map, the grid and the four bytes of the scenario
C6_Map == Map("c6", 10, 8, "none", 2, 2, "X/4")

C6_Grid == << <<R(1), R(2)>>, <<R(3), R(4)>> >>

BytesAt10(data) ==
    << Read(data, 10), Read(data, 11), Read(data, 12), Read(data, 13) >>

SelectedMap == IF rom = NULL THEN NULL ELSE FindMap(rom.detectedMaps, selectedMapId, 1)

\* C6 as stated: over the 12-byte buffer the map offset=10, 2 x 2, 8 bit, X/4
\* extracts to [[1,2],[3,4]].
C6_Original ==
    /\ SelectedMap = C6_Map
    /\ rom.data.length = 12
    /\ Read(rom.data, 10) = 4 /\ Read(rom.data, 11) = 8
    => extractMapData(rom.data, C6_Map) = C6_Grid

\* C6 (amended): over a buffer of at least 14 bytes whose bytes [10..14) are
\* 4, 8, 12, 16 the map extracts to [[1,2],[3,4]], and exporting that grid
\* leaves the four bytes 4, 8, 12, 16.
C6_ScenarioRoundTrip ==
    /\ SelectedMap = C6_Map
    /\ rom.data.length >= 14
    /\ BytesAt10(rom.data) = <<4, 8, 12, 16>>
    => /\ extractMapData(rom.data, C6_Map) = C6_Grid
       /\ exported # NULL /\ editingData = C6_Grid =>
            BytesAt10(exported.data) = <<4, 8, 12, 16>>

\* the scenario was exported
C6_Witness ==
    /\ SelectedMap = C6_Map
    /\ rom.data.length = 14
    /\ BytesAt10(rom.data) = <<4, 8, 12, 16>>
    /\ editingData = C6_Grid
    /\ exported # NULL
    /\ BytesAt10(exported.data) = <<4, 8, 12, 16>>

\* the offsets of the bytes of a map
MapRegion(map) ==
    map.offset .. (map.offset + map.rows * map.cols * (map.dataSize \div 8) - 1)

\* C7: for a map with the identity formula lying fully inside the buffer, of
\* data size 8 or 16 and endian be, le or absent, extracting the grid and
\* writing the unedited grid back leaves every byte of the map region as it
\* was.
C7_IdentityRoundTrip ==
    /\ exported # NULL
    /\ exported.by = "handleSaveRom"
    /\ SelectedMap # NULL
    => \/ SelectedMap.formula \notin {NoFormula, "X"}
       \/ \E j \in MapRegion(SelectedMap) : j >= rom.data.length
       \/ editingData # extractMapData(rom.data, SelectedMap)
       \/ \A j \in MapRegion(SelectedMap) :
             Read(exported.data, j) = Read(rom.data, j)

\* a 16-bit map without an endian field whose cell has two different bytes was
\* exported unedited
C7_Witness ==
    /\ exported # NULL
    /\ exported.by = "handleSaveRom"
    /\ SelectedMap # NULL
    /\ SelectedMap.id = "id16"
    /\ SelectedMap.formula = "X"
    /\ \A j \in MapRegion(SelectedMap) : j < rom.data.length
    /\ Read(rom.data, 10) # Read(rom.data, 11)
    /\ editingData = extractMapData(rom.data, SelectedMap)
    /\ \A j \in MapRegion(SelectedMap) : Read(exported.data, j) = Read(rom.data, j)

\* ---- statements about the cell stores of the write path ----
\* the offset of the first byte of the cell in row r, column c (from 1)
WriteOffset(map, r, c) ==
    map.offset + ((r - 1) * map.cols + (c - 1)) * (map.dataSize \div 8)

\* the offsets the checksum stamp of the older handler stores to
StampedOffset(j) == exported.by = "handleSaveRomStamped" /\ j \in {65534, 65535}

\* raw truncated to the nearest bound of 0..255
NearestByte(raw) == IF raw < 0 THEN 0 ELSE IF raw > 255 THEN 255 ELSE raw

\* C11: the byte written for an 8-bit cell is the reverse-evaluated raw value
\* truncated into 0..255: 0 for a raw value below 0, 255 for one above 255,
\* never the value modulo 256.
C11_EightBitClamped ==
    /\ exported # NULL
    /\ SelectedMap # NULL
    /\ editingData # NoGrid
    => \/ SelectedMap.dataSize # 8
       \/ \A r \in 1..SelectedMap.rows, c \in 1..SelectedMap.cols :
             LET o == WriteOffset(SelectedMap, r, c)
                 raw == reverseFormula(SelectedMap.formula, editingData[r][c], 8)
             IN o < exported.data.length /\ ~StampedOffset(o) =>
                  Read(exported.data, o) = NearestByte(raw)

\* one export wrote a cell of raw value -7 as 0 and a cell of raw value 300 as
\* 255
C11_Witness ==
    /\ exported # NULL
    /\ SelectedMap # NULL
    /\ SelectedMap.id = "id8"
    /\ editingData = << <<R(0 - 7), R(300)>> >>
    /\ reverseFormula(SelectedMap.formula, editingData[1][1], 8) = 0 - 7
    /\ reverseFormula(SelectedMap.formula, editingData[1][2], 8) = 300
    /\ Read(rom.data, 10) = 4
    /\ Read(exported.data, 10) = 0
    /\ Read(exported.data, 11) = 255

\* C12: a cell whose byte span exceeds the buffer length modifies no byte of
\* the buffer; a 16-bit cell that starts at the last byte does not write its
\* first byte.
C12_OutOfRangeWriteRejected ==
    /\ exported # NULL
    /\ SelectedMap # NULL
    /\ editingData # NoGrid
    => \A r \in 1..SelectedMap.rows, c \in 1..SelectedMap.cols :
          LET o == WriteOffset(SelectedMap, r, c)
              step == SelectedMap.dataSize \div 8
          IN o + step > rom.data.length =>
               \A j \in o..(o + step - 1) :
                  j < rom.data.length /\ ~StampedOffset(j) =>
                     Read(exported.data, j) = Read(rom.data, j)

\* C30: the two bytes written for a 16-bit cell encode the reverse-evaluated
\* raw value modulo 65536, not a clamped value: the high byte first unless
\* the map's endian is 'le', so that a raw value of 65536 + v or v - 65536 is
\* stored as v.
C30_SixteenBitWraps ==
    /\ exported # NULL
    /\ SelectedMap # NULL
    /\ editingData # NoGrid
    => \/ SelectedMap.dataSize # 16
       \/ \A r \in 1..SelectedMap.rows, c \in 1..SelectedMap.cols :
             LET o == WriteOffset(SelectedMap, r, c)
                 raw == reverseFormula(SelectedMap.formula, editingData[r][c], 16)
                 v == raw % 65536
                 first == IF SelectedMap.endian = "le" THEN v % 256 ELSE v \div 256
                 second == IF SelectedMap.endian = "le" THEN v \div 256 ELSE v % 256
             IN /\ o < exported.data.length /\ ~StampedOffset(o) =>
                     Read(exported.data, o) = first
                /\ o + 1 < exported.data.length /\ ~StampedOffset(o + 1) =>
                     Read(exported.data, o + 1) = second

\* one export of a 16-bit map without an endian field wrote a cell of raw
\* value -7 as 0xFFF9 and a cell of raw value 65536 + 300 as 300
C30_Witness ==
    /\ exported # NULL
    /\ SelectedMap # NULL
    /\ SelectedMap.id = "id16"
    /\ editingData = << <<R(0 - 7), R(65836)>> >>
    /\ reverseFormula(SelectedMap.formula, editingData[1][1], 16) = 0 - 7
    /\ reverseFormula(SelectedMap.formula, editingData[1][2], 16) = 65836
    /\ Read(exported.data, 10) = 255 /\ Read(exported.data, 11) = 249
    /\ Read(exported.data, 12) = 1 /\ Read(exported.data, 13) = 44

(***************************************************************************)
(* Axis resolution (romParser.ts getAxisValues).  An axis is a record      *)
(* [source, values, size, offset, stepValue, dataSize, endian, formula];   *)
(* an absent axis is NULL, absent values are the empty sequence, an absent *)
(* size or stepValue is 0.  The run gives the values returned and the set  *)
(* of buffer indices read.                                                 *)
(***************************************************************************)
STEP == "Step"

ROM == "ROM Address"

NONE == "None/Disabled"

Axis(source, values, size, offset, stepValue, dataSize, endian, formula) ==
    [source |-> source, values |-> values, size |-> size, offset |-> offset,
     stepValue |-> stepValue, dataSize |-> dataSize, endian |-> endian,
     formula |-> formula]

\* n || 1
OrOneInt(n) == IF n = 0 THEN 1 ELSE n

\* the for loop over i of getAxisValues, run = [vals, reads]
RECURSIVE AxisLoop(_, _, _, _, _, _)
AxisLoop(rom_, axis, size, i, offset, run) ==
    IF i >= size THEN run
    ELSE LET step == axis.dataSize \div 8
             raw == ReadRaw(rom_, offset, axis.dataSize, axis.endian)
             touched == IF axis.dataSize = 16 THEN {offset, offset + 1} ELSE {offset}
         IN AxisLoop(rom_, axis, size, i + 1, offset + step,
                     [vals |-> Append(run.vals, evaluateFormula(axis.formula, raw)),
                      reads |-> run.reads \cup touched])

\* variant: the override is looked at before the source
getAxisValuesRun_overrideFirst(rom_, axis) ==
    IF axis = NULL THEN [vals |-> <<>>, reads |-> {}]
    ELSE IF Len(axis.values) > 0 THEN [vals |-> axis.values, reads |-> {}]
    ELSE IF axis.source = NONE THEN [vals |-> <<>>, reads |-> {}]
    ELSE LET size == OrOneInt(axis.size)
         IN IF axis.source = STEP
            THEN LET step == OrOneInt(axis.stepValue)
                 IN [vals |-> [i \in 1..size |->
                                 evaluateFormula(axis.formula, (i - 1) * step)],
                     reads |-> {}]
            ELSE IF axis.offset + size * (axis.dataSize \div 8) > rom_.length
                 THEN [vals |-> [i \in 1..size |-> R(0)], reads |-> {}]
                 ELSE AxisLoop(rom_, axis, size, 0, axis.offset,
                               [vals |-> <<>>, reads |-> {}])

\* variant: the span check only covers the last cell's first byte
getAxisValuesRun_lateCheck(rom_, axis) ==
    IF axis = NULL THEN [vals |-> <<>>, reads |-> {}]
    ELSE IF axis.source = NONE THEN [vals |-> <<>>, reads |-> {}]
    ELSE IF Len(axis.values) > 0 THEN [vals |-> axis.values, reads |-> {}]
    ELSE LET size == OrOneInt(axis.size)
         IN IF axis.source = STEP
            THEN LET step == OrOneInt(axis.stepValue)
                 IN [vals |-> [i \in 1..size |->
                                 evaluateFormula(axis.formula, (i - 1) * step)],
                     reads |-> {}]
            ELSE IF axis.offset + (size - 1) * (axis.dataSize \div 8) >= rom_.length
                 THEN [vals |-> [i \in 1..size |-> R(0)], reads |-> {}]
                 ELSE AxisLoop(rom_, axis, size, 0, axis.offset,
                               [vals |-> <<>>, reads |-> {}])

getAxisValuesRun(rom_, axis) ==
    IF axis = NULL THEN [vals |-> <<>>, reads |-> {}]
    ELSE IF axis.source = NONE THEN [vals |-> <<>>, reads |-> {}]
    ELSE IF Len(axis.values) > 0 THEN [vals |-> axis.values, reads |-> {}]
    ELSE LET size == OrOneInt(axis.size)
         IN IF axis.source = STEP
            THEN LET step == OrOneInt(axis.stepValue)
                 IN [vals |-> [i \in 1..size |->
                                 evaluateFormula(axis.formula, (i - 1) * step)],
                     reads |-> {}]
            ELSE IF axis.offset + size * (axis.dataSize \div 8) > rom_.length
                 THEN [vals |-> [i \in 1..size |-> R(0)], reads |-> {}]
                 ELSE AxisLoop(rom_, axis, size, 0, axis.offset,
                               [vals |-> <<>>, reads |-> {}])

getAxisValues(rom_, axis) == getAxisValuesRun(rom_, axis).vals

(***************************************************************************)
(* Axis run: getAxisValues applied to every small buffer and axis.         *)
(***************************************************************************)
MaxAxisSize == 2

AxisOverrides == { <<>>, <<R(7), R(9), R(11)>> }

AxisInputs ==
    { NULL } \cup
    { Axis(source, values, size, offset, stepValue, dataSize, endian, formula) :
        source \in {STEP, ROM, NONE}, values \in AxisOverrides,
        size \in 0..MaxAxisSize, offset \in 0..MaxBufLen, stepValue \in {0, 5},
        dataSize \in {8, 16}, endian \in {"be", "le", "none"},
        formula \in {"X", "X/256"} }

InitAxis ==
    /\ arg \in { [data |-> d, axis |-> a] : d \in ExtractBuffers, a \in AxisInputs }
    /\ ret = NULL
    /\ tempRom = NULL /\ rom = NULL /\ selectedMapId = NoMapId
    /\ editingData = NoGrid /\ exported = NULL

callGetAxisValues ==
    /\ ret' = [fn |-> "getAxisValues",
               val |-> getAxisValues(arg.data, arg.axis),
               reads |-> getAxisValuesRun(arg.data, arg.axis).reads]
    /\ UNCHANGED <<arg, appVars>>

NextAxis == callGetAxisValues

SpecAxis == InitAxis /\ [][NextAxis]_vars

AxisRawAt(data, axis, i) ==
    LET o == axis.offset + i * (axis.dataSize \div 8)
    IN IF axis.dataSize = 8 THEN Read(data, o)
       ELSE IF axis.endian = "le" THEN Read(data, o) + 256 * Read(data, o + 1)
       ELSE 256 * Read(data, o) + Read(data, o + 1)

\* C14: a RomAddress axis without an override whose span offset +
\* size*(dataSize/8) exceeds the buffer gives size zeros and reads no byte;
\* otherwise it gives size values, the i-th being the forward formula of the
\* raw value at offset + i*(dataSize/8).
C14_WholeSpanChecked ==
    /\ ret # NULL /\ ret.fn = "getAxisValues" /\ arg.axis # NULL
    /\ arg.axis.source = ROM
    /\ Len(arg.axis.values) = 0
    /\ arg.axis.size >= 1
    => /\ Len(ret.val) = arg.axis.size
       /\ IF arg.axis.offset + arg.axis.size * (arg.axis.dataSize \div 8)
               > arg.data.length
          THEN /\ \A i \in 1..arg.axis.size : ret.val[i] = R(0)
               /\ ret.reads = {}
          ELSE \A i \in 1..arg.axis.size :
                  ret.val[i] = evaluateFormula(arg.axis.formula,
                                               AxisRawAt(arg.data, arg.axis, i - 1))

\* a 16-bit axis of two entries whose second entry lacks its last byte
C14_Witness ==
    /\ ret # NULL /\ ret.fn = "getAxisValues" /\ arg.axis # NULL
    /\ arg.axis.source = ROM
    /\ Len(arg.axis.values) = 0
    /\ arg.axis.size = 2 /\ arg.axis.dataSize = 16
    /\ arg.axis.offset + 3 = arg.data.length
    /\ Read(arg.data, arg.axis.offset) = 200
    /\ ret.val = <<R(0), R(0)>>
    /\ ret.reads = {}

(***************************************************************************)
(* Scan run: findSelfPointerBlocks applied to buffers that hold words      *)
(* equal to their own offset in either byte order.                         *)
(***************************************************************************)
MaxScanPad == 1

ScanLengths == (0..MaxSmallLen) \cup { 104 + k : k \in 0..MaxScanPad }

ScanOffsets == << 0, 2, 4, 100, 102 >>

\* the word at offset o is left alone, or stores o little- or big-endian
RECURSIVE Stamped(_, _, _)
Stamped(data, k, how) ==
    IF k > Len(ScanOffsets) THEN data
    ELSE LET o == ScanOffsets[k]
             next ==
                 CASE how[k] = "le" -> WithBytes(data, o, << o % 256, o \div 256 >>)
                   [] how[k] = "be" -> WithBytes(data, o, << o \div 256, o % 256 >>)
                   [] OTHER -> data
         IN Stamped(next, k + 1, how)

StampedBuffers ==
    { Stamped(Buf(len, fill, NoBytes), 1, how) :
        len \in ScanLengths, fill \in {0, 255},
        how \in [1..Len(ScanOffsets) -> {"no", "le", "be"}] }

\* more runs than the scan returns: n runs of words that store their own
\* offsets little-endian, one run every 8 bytes, each of one word but the run
\* numbered p (lp words) and the last one (lq words)
CombRuns == (MaxSelfPointerBlocks - 1)..(MaxSelfPointerBlocks + 1 + MaxScanPad)

Comb(len, n, p, lp, lq) ==
    LET words == { 8 * k + 2 * w : k \in 0..(n - 1), w \in 0..2 }
        kept == { o \in words :
                    (o % 8) \div 2 < (IF o \div 8 = p THEN lp
                                      ELSE IF o \div 8 = n - 1 THEN lq ELSE 1) }
    IN Buf(len, 255, [j \in { o + b : o \in kept, b \in 0..1 } |->
                        IF j % 2 = 0 THEN j % 256 ELSE (j - 1) \div 256])

CombBuffers ==
    { Comb(8 * n - cut, n, p, lp, lq) :
        n \in CombRuns, cut \in {0, 2}, p \in 0..MaxSelfPointerBlocks,
        lp \in 1..3, lq \in 1..3 }

ScanBuffers == StampedBuffers \cup CombBuffers

InitScan ==
    /\ arg \in { [data |-> d] : d \in ScanBuffers }
    /\ ret = NULL
    /\ tempRom = NULL /\ rom = NULL /\ selectedMapId = NoMapId
    /\ editingData = NoGrid /\ exported = NULL

callFindSelfPointerBlocks ==
    /\ ret' = [fn |-> "findSelfPointerBlocks", val |-> findSelfPointerBlocks(arg.data)]
    /\ UNCHANGED <<arg, appVars>>

NextScan == callFindSelfPointerBlocks

SpecScan == InitScan /\ [][NextScan]_vars

\* ---- statements about findSelfPointerBlocks ----
\* the word at the even offset j stores j in one of the two byte orders
SelfReferencing(data, j) == WordLE(data, j) = j \/ WordBE(data, j) = j

\* C15: over a buffer whose bytes 100..103 are the big-endian words 100 and
\* 102 and that has no other self-referencing word the scan reports exactly
\* the block {offset: 100, length: 2, endian: 'be'}.
C15_BigEndianBlockReported ==
    /\ ret # NULL /\ ret.fn = "findSelfPointerBlocks"
    /\ arg.data.length >= 104
    /\ WordBE(arg.data, 100) = 100 /\ WordBE(arg.data, 102) = 102
    /\ \A j \in ScanStops(arg.data) \ {100, 102} : ~SelfReferencing(arg.data, j)
    => ret.val = << [offset |-> 100, length |-> 2, endian |-> "be"] >>

\* the word at the even offset j inside the buffer stores j in the byte order
\* the scan reads
SelfWord(data, j) == j >= 0 /\ j < data.length - 1 /\ WordLE(data, j) = j

\* the offsets at which a maximal run of such words starts
RunStarts(data) ==
    { j \in ScanStops(data) : SelfWord(data, j) /\ ~SelfWord(data, j - 2) }

\* the number of words of the run that starts at j
RunWords(data, j) ==
    CHOOSE n \in 1..(data.length \div 2) :
        /\ \A k \in 0..(n - 1) : SelfWord(data, j + 2 * k)
        /\ ~SelfWord(data, j + 2 * n)

BlockWord(data, block, j) ==
    IF block.endian = "le" THEN WordLE(data, j) ELSE WordBE(data, j)

\* the word at offset j lies inside the buffer and stores j in that byte order
BlockSelfWord(data, block, j) ==
    j >= 0 /\ j < data.length - 1 /\ BlockWord(data, block, j) = j

\* the byte offsets a block covers
BlockBytes(block) == block.offset..(block.offset + 2 * block.length - 1)

\* C28: every block returned by findSelfPointerBlocks has an even offset and
\* ends inside the buffer, each of its words stores its own offset in the
\* block's byte order, the words directly before and after it do not, and no
\* two returned blocks overlap or share an offset.
C28_BlocksSoundAndMaximal ==
    ret # NULL /\ ret.fn = "findSelfPointerBlocks" =>
        LET data == arg.data
            blocks == ret.val
        IN /\ \A k \in 1..Len(blocks) :
                LET b == blocks[k]
                IN /\ b.offset % 2 = 0
                   /\ b.offset + 2 * b.length <= data.length
                   /\ \A n \in 0..(b.length - 1) :
                        BlockWord(data, b, b.offset + 2 * n) = b.offset + 2 * n
                   /\ ~BlockSelfWord(data, b, b.offset - 2)
                   /\ ~BlockSelfWord(data, b, b.offset + 2 * b.length)
           /\ \A k, m \in 1..Len(blocks) :
                k # m => /\ blocks[k].offset # blocks[m].offset
                         /\ BlockBytes(blocks[k]) \cap BlockBytes(blocks[m]) = {}

\* several blocks are returned, one of two or more words with words of the
\* buffer on both sides, and one that ends with the last word of the buffer
C28_Witness ==
    /\ ret # NULL /\ ret.fn = "findSelfPointerBlocks"
    /\ \E k, m \in 1..Len(ret.val) :
        /\ k # m
        /\ ret.val[k].length >= 2
        /\ ret.val[k].offset >= 2
        /\ ret.val[k].offset + 2 * ret.val[k].length < arg.data.length - 1
        /\ ret.val[m].offset + 2 * ret.val[m].length = arg.data.length

(***************************************************************************)
(* Identity run: findBoschIDWithOffset applied, in both modes, to buffers  *)
(* that hold one stored text at every position, clipped at both ends.      *)
(***************************************************************************)
MaxIdPad == 2

\* "1267.12", a null, "3 45-6"
SwIdSeparated == SwPrefix \o << 46, 49, 50, 0, 51, 32, 52, 53, 45, 54 >>

\* "126712A34567": a letter among the digits
SwIdBroken == SwPrefix \o << 49, 50, 65, 51, 52, 53, 54, 55 >>

\* "126712345A": nine digits
SwIdShort == SwPrefix \o << 49, 50, 51, 52, 53, 65 >>

\* "12671267123456": two positions qualify
SwIdTwice == SwPrefix \o SwId

StoredTexts ==
    { SwId, HwId, SwIdSeparated, SwIdBroken, SwIdShort, SwIdTwice,
      Reverse(SwId), Reverse(HwId), Reverse(SwIdSeparated), Reverse(SwIdShort),
      Reverse(SwIdTwice) }

IdLengths == { 0, 15, 16, 17 } \cup { 26 + k : k \in 0..MaxIdPad }

IdBuffers ==
    { WithBytes(Buf(len, fill, NoBytes), o, text) :
        len \in IdLengths, fill \in {0, 65}, text \in StoredTexts,
        o \in (0 - 9)..(26 + MaxIdPad) }

InitIdent ==
    /\ arg \in { [data |-> d, prefix |-> pre, reversed |-> rev] :
                   d \in IdBuffers, pre \in {HwPrefix, SwPrefix}, rev \in BOOLEAN }
    /\ ret = NULL
    /\ tempRom = NULL /\ rom = NULL /\ selectedMapId = NoMapId
    /\ editingData = NoGrid /\ exported = NULL

callFindBoschIDWithOffset ==
    /\ ret' = [fn |-> "findBoschIDWithOffset",
               val |-> findBoschIDWithOffset(arg.data, arg.prefix, arg.reversed),
               walkLow |-> findBoschIDRun(arg.data, arg.prefix, arg.reversed).walkLow]
    /\ UNCHANGED <<arg, appVars>>

NextIdent == callFindBoschIDWithOffset

SpecIdent == InitIdent /\ [][NextIdent]_vars

\* ---- statements about findBoschIDWithOffset ----
\* the n bytes stored from address a on
BytesFrom(data, a, n) == [k \in 1..n |-> Read(data, a + k - 1)]

StartsWith(text, prefix) ==
    Len(text) >= Len(prefix) /\ \A k \in 1..Len(prefix) : text[k] = prefix[k]

\* addresses a..a+9 hold, highest address first, ten digits that begin with
\* the prefix
ReversedIdAt(data, prefix, a) ==
    /\ a >= 0 /\ a + 10 <= data.length
    /\ \A k \in 0..9 : IsDigit(Read(data, a + k))
    /\ StartsWith(Reverse(BytesFrom(data, a, 10)), prefix)

\* the stored blocks whose reversed prefix, at a + 6, lies in the positions
\* the scan visits
ScannedReversedIds(data, prefix) ==
    { a \in 0..(data.length - 10) :
        ReversedIdAt(data, prefix, a) /\ a + 6 < data.length - 15 }

RECURSIVE Collect(_, _, _, _)
Collect(data, p, dir, text) ==
    IF Len(text) = 10 THEN text
    ELSE IF p < 0 \/ p >= data.length THEN <<>>
    ELSE IF IsDigit(Read(data, p)) THEN Collect(data, p + dir, dir, Append(text, Read(data, p)))
    ELSE IF IsSeparator(Read(data, p)) THEN Collect(data, p + dir, dir, text)
    ELSE <<>>

\* the ID collected at candidate position i, <<>> when it does not qualify
Candidate(data, prefix, reversed, i) ==
    IF reversed
    THEN IF PrefixAt(data, Reverse(prefix), i)
         THEN Collect(data, i - 1, 0 - 1, prefix) ELSE <<>>
    ELSE IF PrefixAt(data, prefix, i)
         THEN Collect(data, i + Len(prefix), 1, prefix) ELSE <<>>

\* C17: in both modes separators between digits are skipped, any other
\* non-digit aborts the candidate and the scan goes on, and a result is
\* returned only when 10 digits were collected (over the positions the scan
\* visits).
C17_SeparatorsSkippedBothModes ==
    ret # NULL /\ ret.fn = "findBoschIDWithOffset" =>
        LET visited == 0..(arg.data.length - 16)
            qualifying == { i \in visited :
                              Candidate(arg.data, arg.prefix, arg.reversed, i) # <<>> }
        IN IF qualifying = {} THEN ~ret.val.found
           ELSE /\ ret.val.found
                /\ ret.val.val = Candidate(arg.data, arg.prefix, arg.reversed,
                                           SetMin(qualifying))

\* C18: in forward mode, if any position of the buffer, its last bytes
\* included, holds the prefix followed by enough digits to reach 10, the
\* matcher returns the lowest such position and its ID; it returns not-found
\* only when no position qualifies.
C18_LowestQualifyingAnywhere ==
    ret # NULL /\ ret.fn = "findBoschIDWithOffset" /\ ~arg.reversed =>
        LET qualifying == { i \in 0..(arg.data.length - 1) :
                              Candidate(arg.data, arg.prefix, FALSE, i) # <<>> }
        IN IF qualifying = {} THEN ~ret.val.found
           ELSE ret.val = Found(Candidate(arg.data, arg.prefix, FALSE, SetMin(qualifying)),
                                SetMin(qualifying))

\* C19: the backward walk reads no index below 0, and a reversed prefix with
\* fewer than 10 digits between the buffer start and its end is no match: a
\* result always names ten digits that lie inside the buffer.
C19_BackwardWalkBounded ==
    ret # NULL /\ ret.fn = "findBoschIDWithOffset" /\ arg.reversed =>
        /\ ret.walkLow >= 0
        /\ ret.val.found =>
             /\ ret.val.offset >= 0
             /\ \A k \in 0..9 : IsDigit(Read(arg.data, ret.val.offset + k))
        /\ \A i \in 0..5 :
             PrefixAt(arg.data, Reverse(arg.prefix), i) /\ ret.val.found =>
                ret.val.offset + 6 # i

\* the reversed prefix starts at index 0: the walk read down to index 0 and
\* gave up
C19_Witness ==
    /\ ret # NULL /\ ret.fn = "findBoschIDWithOffset" /\ arg.reversed
    /\ arg.data.length >= 16
    /\ PrefixAt(arg.data, Reverse(arg.prefix), 0)
    /\ ret.walkLow = 0
    /\ ~ret.val.found

\* ---- statements about the version object of parse ----
\* a version field is defined, holds the matched text when its matcher found
\* one and 'Unknown' when not
SentinelOrMatch(field, match) ==
    /\ ~field.undefined
    /\ field.text = IF match.found THEN match.val ELSE Unknown

\* ten digits that begin with the prefix
TenDigitId(text, prefix) ==
    /\ Len(text) = 10
    /\ \A k \in 1..10 : IsDigit(text[k])
    /\ StartsWith(text, prefix)

\* C20: after parse every version field whose matcher found nothing is
\* 'Unknown', never undefined; a field whose matcher succeeded holds the
\* matched text, for hw and sw ten digits beginning 0261 and 1267.
C20_VersionNeverUndefined ==
    tempRom # NULL =>
        LET data == tempRom.data
            hw == PrefixedId(data, HwPrefix)
            sw == PrefixedId(data, SwPrefix)
        IN /\ SentinelOrMatch(tempRom.version.hw, hw)
           /\ SentinelOrMatch(tempRom.version.sw, sw)
           /\ SentinelOrMatch(tempRom.version.id, findPatternWithOffset(data, IdNumPattern))
           /\ SentinelOrMatch(tempRom.version.label, findPatternWithOffset(data, LabelPattern))
           /\ hw.found => TenDigitId(tempRom.version.hw.text, HwPrefix)
           /\ sw.found => TenDigitId(tempRom.version.sw.text, SwPrefix)

(***************************************************************************)
(* The two structure scans iteration by iteration, with the offsets the    *)
(* for loop examines (outer) and the byte indices read (reads).  No        *)
(* iteration is passed over here; the scans above pass over stretches of   *)
(* plain fill words and give the same lists.                               *)
(***************************************************************************)
\* variant: the run is not bounded by the end of the buffer
RECURSIVE SelfRunSteps_unguarded(_, _, _, _)
SelfRunSteps_unguarded(data, i, count, reads) ==
    IF WordLE(data, i) = i
    THEN SelfRunSteps_unguarded(data, i + 2, count + 1, reads \cup {i, i + 1})
    ELSE [i |-> i, count |-> count, reads |-> reads \cup {i, i + 1}]

\* while (i < data.length - 1 && (data[i] | (data[i + 1] << 8)) === i)
RECURSIVE SelfRunSteps(_, _, _, _)
SelfRunSteps(data, i, count, reads) ==
    IF i < data.length - 1
    THEN IF WordLE(data, i) = i
         THEN SelfRunSteps(data, i + 2, count + 1, reads \cup {i, i + 1})
         ELSE [i |-> i, count |-> count, reads |-> reads \cup {i, i + 1}]
    ELSE [i |-> i, count |-> count, reads |-> reads]

\* variant: the index is moved back by 4
StepBack_four(i) == i - 4

\* i -= 2 after a run is closed
StepBack(i) == i - 2

\* a scan that has examined more offsets than the buffer has bytes is cut off
CutOff(data, outer) == Len(outer) > data.length

\* for (let i = 0; i < data.length - 1; i += 2) of findSelfPointerBlocks
RECURSIVE SelfScanSteps(_, _, _)
SelfScanSteps(data, i, t) ==
    IF i >= data.length - 1 \/ CutOff(data, t.outer) THEN t
    ELSE LET outer == Append(t.outer, i)
             reads == t.reads \cup {i, i + 1}
         IN IF WordLE(data, i) = i
            THEN LET run == SelfRunSteps(data, i, 0, reads)
                     pushed == IF HasOffset(t.blocks, i) THEN t.blocks
                               ELSE Append(t.blocks, [offset |-> i, length |-> run.count,
                                                      endian |-> "le"])
                 IN SelfScanSteps(data, StepBack(run.i) + 2,
                                  [blocks |-> pushed, outer |-> outer, reads |-> run.reads])
            ELSE SelfScanSteps(data, i + 2,
                               [blocks |-> t.blocks, outer |-> outer, reads |-> reads])

NoSteps == [blocks |-> <<>>, outer |-> <<>>, reads |-> {}]

\* while (i < data.length - 1 && misses < 2) of findMasterIndexLists
RECURSIVE MasterRunSteps(_, _, _, _, _, _)
MasterRunSteps(data, anchors, i, count, misses, reads) ==
    IF i < data.length - 1 /\ misses < MissLimit
    THEN LET currentVal == WordBE(data, i)
             read == reads \cup {i, i + 1}
         IN IF currentVal \in anchors
            THEN MasterRunSteps(data, anchors, i + 2, count + 1, 0, read)
            ELSE IF InRange(data, currentVal)
            THEN MasterRunSteps(data, anchors, i + 2, count + 1, misses + 1, read)
            ELSE [i |-> i, count |-> count, misses |-> misses, reads |-> read]
    ELSE [i |-> i, count |-> count, misses |-> misses, reads |-> reads]

\* for (let i = 0; i < data.length - 1; i += 2) of findMasterIndexLists
RECURSIVE MasterScanSteps(_, _, _, _)
MasterScanSteps(data, anchors, i, t) ==
    IF i >= data.length - 1 \/ CutOff(data, t.outer) THEN t
    ELSE LET outer == Append(t.outer, i)
             reads == t.reads \cup {i, i + 1}
         IN IF WordBE(data, i) \in anchors
            THEN LET run == MasterRunSteps(data, anchors, i, 0, 0, reads)
                     pushed == IF run.count >= MinListCount
                               THEN Append(t.blocks, [offset |-> i,
                                                      length |-> run.count - run.misses])
                               ELSE t.blocks
                 IN MasterScanSteps(data, anchors, StepBack(run.i) + 2,
                                    [blocks |-> pushed, outer |-> outer, reads |-> run.reads])
            ELSE MasterScanSteps(data, anchors, i + 2,
                                 [blocks |-> t.blocks, outer |-> outer, reads |-> reads])

\* findSelfPointerBlocks and findMasterIndexLists with what they examined
findSelfPointerBlocksSteps(data) == SelfScanSteps(data, 0, NoSteps)

findMasterIndexListsSteps(data, anchors) ==
    IF anchors = {} THEN NoSteps ELSE MasterScanSteps(data, anchors, 0, NoSteps)

(***************************************************************************)
(* Index run: findSelfPointerBlocks, then findMasterIndexLists with the    *)
(* anchors found, applied to buffers whose first words refer to an anchor, *)
(* hold another in-range value, or are left as fill.                       *)
(***************************************************************************)
MaxIndexPad == 1

\* the words of the list region start at offset 0
IndexSlots == 6

\* where the little-endian self-referencing words stand
AnchorOffset == 16

IndexLengths == { AnchorOffset + 4 + k : k \in 0..MaxIndexPad }

\* the bytes of a word that refers to the anchor, of a word that holds 5,
\* and of a word left as it is
SlotBytes(kind) ==
    CASE kind = "a" -> << AnchorOffset \div 256, AnchorOffset % 256 >>
      [] kind = "m" -> << 0, 5 >>
      [] OTHER -> << >>

RECURSIVE WithSlots(_, _, _)
WithSlots(data, k, kinds) ==
    IF k > Len(kinds) THEN data
    ELSE WithSlots(WithBytes(data, 2 * (k - 1), SlotBytes(kinds[k])), k + 1, kinds)

\* the words at AnchorOffset and AnchorOffset + 2 store their own offsets
WithAnchors(data) ==
    WithBytes(data, AnchorOffset,
              << AnchorOffset % 256, AnchorOffset \div 256,
                 (AnchorOffset + 2) % 256, (AnchorOffset + 2) \div 256 >>)

\* a buffer above 0x1000 bytes whose first n words are the even addresses
\* 0x1008, 0x100A, ... inside it
GuardedLength == 4200

RECURSIVE WithAddresses(_, _, _)
WithAddresses(data, k, n) ==
    IF k >= n THEN data
    ELSE WithAddresses(WithBytes(data, 2 * k, << 16, 8 + 2 * k >>), k + 1, n)

GuardedBuffers ==
    { WithAddresses(IF anchored THEN WithAnchors(Buf(GuardedLength, 255, NoBytes))
                    ELSE Buf(GuardedLength, 255, NoBytes), 0, n) :
        anchored \in BOOLEAN, n \in 3..5 }

SlotBuffers ==
    { WithSlots(IF anchored THEN WithAnchors(Buf(len, fill, NoBytes))
                ELSE Buf(len, fill, NoBytes), 1, kinds) :
        len \in IndexLengths, fill \in {0, 255}, anchored \in BOOLEAN,
        kinds \in [1..IndexSlots -> {"a", "m", "x"}] }

IndexBuffers == SlotBuffers \cup GuardedBuffers

InitIndex ==
    /\ arg \in { [data |-> d] : d \in IndexBuffers }
    /\ ret = NULL
    /\ tempRom = NULL /\ rom = NULL /\ selectedMapId = NoMapId
    /\ editingData = NoGrid /\ exported = NULL

\* step 3 of parse: the blocks and the anchors they give
callDiscoverAnchors ==
    /\ ret = NULL
    /\ ret' = [fn |-> "findSelfPointerBlocks",
               anchors |-> discoveredAnchors(findSelfPointerBlocks(arg.data))]
    /\ UNCHANGED <<arg, appVars>>

\* step 4 of parse: the lists that refer to the anchors
callFindMasterIndexLists ==
    /\ ret # NULL /\ ret.fn = "findSelfPointerBlocks"
    /\ ret' = [fn |-> "findMasterIndexLists", anchors |-> ret.anchors,
               val |-> findMasterIndexLists(arg.data, ret.anchors)]
    /\ UNCHANGED <<arg, appVars>>

NextIndex == callDiscoverAnchors \/ callFindMasterIndexLists

SpecIndex == InitIndex /\ [][NextIndex]_vars

(***************************************************************************)
(* Parse run: parse applied to buffers of every small length, with the     *)
(* byte indices each pass reads.                                           *)
(***************************************************************************)
\* for (let i = 0; i < limit; i++) data[i]
LoopReads(limit) == 0..(limit - 1)

\* calculateSummation16 and verifyChecksum
ChecksumReads(data) ==
    LoopReads(data.length)
    \cup IF data.length < MinRomSize THEN {}
         ELSE LoopReads(data.length - 2) \cup { data.length - 1 - 1, data.length - 1 }

\* the inner loop over j: data[i + j] is read up to the first mismatch
PrefixReads(data, prefixBytes, i) ==
    LET differ == { j \in 1..Len(prefixBytes) : Read(data, i + j - 1) # prefixBytes[j] }
        last == IF differ = {} THEN Len(prefixBytes) ELSE SetMin(differ)
    IN { i + j - 1 : j \in 1..last }

\* while (foundCount < 10 && p < data.length) of the forward branch
RECURSIVE ForwardReads(_, _, _, _)
ForwardReads(data, p, foundCount, reads) ==
    IF foundCount < 10 /\ p < data.length
    THEN LET charCode == Read(data, p)
         IN IF IsDigit(charCode)
            THEN ForwardReads(data, p + 1, foundCount + 1, reads \cup {p})
            ELSE IF ~IsSeparator(charCode) THEN reads \cup {p}
            ELSE ForwardReads(data, p + 1, foundCount, reads \cup {p})
    ELSE reads

\* the positions after i up to the next one that can match hold plain fill
\* bytes only: at each of them the inner loop reads up to the first byte of
\* the prefix that differs from the fill byte
PlainReads(data, prefixBytes, i, next) ==
    LET limit == IF next > data.length - 15 THEN data.length - 15 ELSE next
        differ == { j \in 1..Len(prefixBytes) : prefixBytes[j] # data.fill }
    IN IF limit - 1 < i + 1 \/ differ = {} THEN {}
       ELSE (i + 1)..(limit - 1 + SetMin(differ) - 1)

\* the indices read by the for loop of findBoschIDWithOffset from position i on
RECURSIVE MatchReads(_, _, _, _, _)
MatchReads(data, prefix, reversed, i, reads) ==
    LET prefixBytes == IF reversed THEN Reverse(prefix) ELSE prefix
        tested == reads \cup PrefixReads(data, prefixBytes, i)
        first == i + Len(prefixBytes) - 1
        next == NextMatchStop(data, prefixBytes, i + 1)
        plain == PlainReads(data, prefixBytes, i, next)
    IN IF i >= data.length - 15 THEN reads
       ELSE IF ~PrefixAt(data, prefixBytes, i)
       THEN MatchReads(data, prefix, reversed, next, tested \cup plain)
       ELSE IF reversed
       THEN LET w == BackwardWalk(data, first, 0, <<>>, first + 1)
                walked == tested \cup (w.low..first)
            IN IF w.foundCount = 10 THEN walked
               ELSE MatchReads(data, prefix, reversed, next, walked \cup plain)
       ELSE LET w == ForwardWalk(data, first + 1, Len(prefix), prefix)
                walked == ForwardReads(data, first + 1, Len(prefix), tested)
            IN IF w.foundCount = 10 THEN walked
               ELSE MatchReads(data, prefix, reversed, next, walked \cup plain)

\* findBoschIDWithOffset(data, prefix) || findBoschIDWithOffset(data, prefix, true)
PrefixedIdReads(data, prefix) ==
    MatchReads(data, prefix, FALSE, 0, {})
    \cup IF findBoschIDWithOffset(data, prefix, FALSE).found THEN {}
         ELSE MatchReads(data, prefix, TRUE, 0, {})

\* the two prefixed matchers and textDecoder.decode(data) of the two patterns
IdentityReads(data) ==
    PrefixedIdReads(data, HwPrefix) \cup PrefixedIdReads(data, SwPrefix)
    \cup LoopReads(data.length)

\* the two structure scans as parse calls them
StructureSteps(data) ==
    LET blocks == findSelfPointerBlocksSteps(data)
        anchors == discoveredAnchors(Slice(SortByLength(blocks.blocks, 1, <<>>),
                                           MaxSelfPointerBlocks))
    IN [self |-> blocks, master |-> findMasterIndexListsSteps(data, anchors)]

ParseReads(data) ==
    LET steps == StructureSteps(data)
    IN [checksum |-> ChecksumReads(data),
        identity |-> IdentityReads(data),
        structure |-> steps.self.reads \cup steps.master.reads,
        selfOuter |-> steps.self.outer,
        masterOuter |-> steps.master.outer,
        cutOff |-> CutOff(data, steps.self.outer) \/ CutOff(data, steps.master.outer)]

\* "126712" and then separators up to the end of the buffer
TrailingBuffers ==
    { WithBytes(Buf(len, 0, NoBytes), o, SwPrefix \o << 49, 50 >>) :
        len \in {16, 17, 26}, o \in {0, 1} }

\* the byte 0x02 and a row count at the start of an 80-byte buffer
HeaderBuffers ==
    { WithBytes(Buf(80, fill, NoBytes), 0, << 2, rowCount >>) :
        fill \in {0, 255}, rowCount \in {8, 9, 10, 12, 16} }

ParseBuffers ==
    IdBuffers \cup StampedBuffers \cup SlotBuffers \cup TrailingBuffers \cup HeaderBuffers

InitParse ==
    /\ arg \in { [data |-> d] : d \in ParseBuffers }
    /\ ret = NULL
    /\ tempRom = NULL /\ rom = NULL /\ selectedMapId = NoMapId
    /\ editingData = NoGrid /\ exported = NULL

callParse ==
    /\ ret' = [fn |-> "parse", val |-> parse(arg.data), reads |-> ParseReads(arg.data)]
    /\ UNCHANGED <<arg, appVars>>

NextParse == callParse

SpecParse == InitParse /\ [][NextParse]_vars

\* ---- statements about parse ----
\* C21: parse of a buffer of any length and content returns a ParseResult, and
\* every byte index read by the checksum, identity and structure passes lies
\* in 0..length-1.
C21_ParseNeverFails ==
    ret # NULL /\ ret.fn = "parse" =>
        /\ ret.val.size = arg.data.length
        /\ ret.val.data = arg.data
        /\ ~ret.reads.cutOff
        /\ ret.reads.checksum \subseteq 0..(arg.data.length - 1)
        /\ ret.reads.identity \subseteq 0..(arg.data.length - 1)
        /\ ret.reads.structure \subseteq 0..(arg.data.length - 1)

\* parse of a buffer shorter than 16 bytes whose last word closes a run of
\* self-referencing words
C21_Witness ==
    /\ ret # NULL /\ ret.fn = "parse"
    /\ arg.data.length = 2
    /\ ret.reads.structure = {0, 1}
    /\ Len(ret.val.detectedMaps) > 0

\* the offsets of a sequence grow from each entry to the next
StrictlyIncreasing(offsets) ==
    \A k \in 1..(Len(offsets) - 1) : offsets[k] < offsets[k + 1]

\* some entry of the sequence lies more than one word after the entry before
\* it: a run of two or more words was closed there
SkipsAhead(offsets) ==
    \E k \in 1..(Len(offsets) - 1) : offsets[k + 1] > offsets[k] + 2

\* C27: the outer loops of findSelfPointerBlocks and findMasterIndexLists end
\* on every buffer: the offset examined by the outer loop strictly increases
\* from one outer iteration to the next, although the index is moved back by
\* 2 after a run, and each loop makes at most length/2 outer iterations.
C27_ScansTerminate ==
    ret # NULL /\ ret.fn = "parse" =>
        /\ ~ret.reads.cutOff
        /\ StrictlyIncreasing(ret.reads.selfOuter)
        /\ StrictlyIncreasing(ret.reads.masterOuter)
        /\ 2 * Len(ret.reads.selfOuter) <= arg.data.length
        /\ 2 * Len(ret.reads.masterOuter) <= arg.data.length

\* both scans closed a run of two or more words and went on behind it
C27_Witness ==
    /\ ret # NULL /\ ret.fn = "parse"
    /\ SkipsAhead(ret.reads.selfOuter)
    /\ SkipsAhead(ret.reads.masterOuter)
    /\ ret.reads.selfOuter[Len(ret.reads.selfOuter)] = arg.data.length - 2

\* the bytes a map covers: rows * cols cells of dataSize / 8 bytes
MapBytes(map) == map.rows * map.cols * (map.dataSize \div 8)

\* extractMapData pushed a 0 for a cell that does not fit into the buffer
ZeroFills(data, map) ==
    ExtractEnd(data, map, 0, map.offset) # map.offset + MapBytes(map)

\* C29: every map parse puts into detectedMaps lies inside the buffer: its
\* offset is at least 0, offset + rows*cols*(dataSize/8) is at most the
\* buffer length, and extractMapData reads every cell of it from the buffer.
C29_MapsInsideBuffer ==
    ret # NULL /\ ret.fn = "parse" =>
        \A k \in 1..Len(ret.val.detectedMaps) :
            LET map == ret.val.detectedMaps[k]
            IN /\ map.offset >= 0
               /\ map.offset + MapBytes(map) <= arg.data.length
               /\ ~ZeroFills(arg.data, map)

\* parse returned a self-pointer anchor and a location index that ends with
\* the last byte of the buffer
C29_Witness ==
    /\ ret # NULL /\ ret.fn = "parse"
    /\ \E k, m \in 1..Len(ret.val.detectedMaps) :
        LET index == ret.val.detectedMaps[k]
            anchor == ret.val.detectedMaps[m]
        IN /\ index.endian = "be" /\ index.rows >= MinListCount
           /\ anchor.endian = "le"
           /\ index.offset + MapBytes(index) = arg.data.length

\* the tag byte and the row counts of a map header
HeaderTag == 2

HeaderRows == {8, 10, 12, 16}

\* the labels of the diagnostics of each pass
IdentityLabels == { "Hardware ID", "Software ID", "ID / Release", "Production Label1" }

StructureLabels == { "Self-Pointer Anchor", "Location Index" }

\* C26: for a position that holds the tag byte 0x02 followed by a row count
\* from {8, 10, 12, 16}, parse adds a table candidate of 8-bit cells to
\* detectedMaps and a diagnostics entry of type 'heuristic'; the checksum
\* entry has type 'integrity', the identity entries 'identity', the pointer
\* entries 'structure', and no other type occurs with these labels.
C26_HeuristicPassTagged ==
    ret # NULL /\ ret.fn = "parse" =>
        LET data == arg.data
            diagnostics == ret.val.diagnostics
            maps == ret.val.detectedMaps
        IN /\ \A i \in DOMAIN data.at :
                /\ i < data.length - 64
                /\ Read(data, i) = HeaderTag
                /\ Read(data, i + 1) \in HeaderRows
                => /\ \E k \in 1..Len(diagnostics) : diagnostics[k].type = "heuristic"
                   /\ \E k \in 1..Len(maps) :
                        maps[k].dataSize = 8 /\ maps[k].rows = Read(data, i + 1)
           /\ \A k \in 1..Len(diagnostics) :
                /\ diagnostics[k].type = "integrity"
                     <=> diagnostics[k].label = "Checksum (16-bit Sum)"
                /\ diagnostics[k].type = "identity"
                     <=> diagnostics[k].label \in IdentityLabels
                /\ diagnostics[k].type = "structure"
                     <=> diagnostics[k].label \in StructureLabels

\* ---- statements about findMasterIndexLists ----
\* the small-address guard of a valid address
AddressGuard == 4096

\* the word at offset o is a valid address: above the guard, below the buffer
\* length, word-aligned
ValidAddress(data, o) ==
    /\ o >= 0 /\ o < data.length - 1
    /\ WordBE(data, o) > AddressGuard
    /\ WordBE(data, o) < data.length
    /\ WordBE(data, o) % 2 = 0

\* the list covers the n words from offset o on
Covers(list, o, n) ==
    list.offset <= o /\ o + 2 * n <= list.offset + 2 * list.length

\* C23: a run of at least 4 consecutive words that hold valid addresses is
\* reported as a pointer list, also when the buffer has no self-referencing
\* anchor; every word of a reported list is a valid address or refers to an
\* anchor.
C23_ListsWithoutAnchors ==
    ret # NULL /\ ret.fn = "findMasterIndexLists" =>
        /\ \A o \in WordStops(arg.data) :
              (\A k \in 0..(MinListCount - 1) : ValidAddress(arg.data, o + 2 * k))
              => \E n \in 1..Len(ret.val) : Covers(ret.val[n], o, MinListCount)
        /\ \A n \in 1..Len(ret.val) : \A k \in 0..(ret.val[n].length - 1) :
              \/ ValidAddress(arg.data, ret.val[n].offset + 2 * k)
              \/ WordBE(arg.data, ret.val[n].offset + 2 * k) \in ret.anchors

\* C24: every list returned by findMasterIndexLists has a length of at least
\* 4 words, at most 10 lists are returned, and they are in order of
\* non-increasing length.
C24_ListsAtLeastFourWords ==
    ret # NULL /\ ret.fn = "findMasterIndexLists" =>
        /\ \A n \in 1..Len(ret.val) : ret.val[n].length >= MinListCount
        /\ Len(ret.val) <= MaxMasterLists
        /\ \A n \in 1..(Len(ret.val) - 1) : ret.val[n].length >= ret.val[n + 1].length

\* the word at offset o refers to an anchor; it is another in-range value
RefersToAnchor(data, anchors, o) ==
    o >= 0 /\ o < data.length - 1 /\ WordBE(data, o) \in anchors

MissWord(data, anchors, o) ==
    /\ o >= 0 /\ o < data.length - 1
    /\ WordBE(data, o) \notin anchors
    /\ InRange(data, WordBE(data, o))

\* the number of consecutive non-matching words a run absorbs
MissBudget == 2

\* C25: two matching words separated by one or by two consecutive
\* non-matching in-range words belong to the same run: a reported list that
\* holds the first also holds the second.
C25_MissBudgetOfTwo ==
    ret # NULL /\ ret.fn = "findMasterIndexLists" =>
        \A n \in 1..Len(ret.val) : \A o \in WordStops(arg.data) \cup {0} :
            \A gap \in 1..MissBudget :
                /\ Covers(ret.val[n], o, 1)
                /\ RefersToAnchor(arg.data, ret.anchors, o)
                /\ \A k \in 1..gap : MissWord(arg.data, ret.anchors, o + 2 * k)
                /\ RefersToAnchor(arg.data, ret.anchors, o + 2 * (gap + 1))
                => Covers(ret.val[n], o + 2 * (gap + 1), 1)

====
